---- MODULE Spec2Model ----
(***************************************************************************)
(* A model of the two web applications of the repository:                  *)
(*   - the school portal  (src/SchoolWebSite/SchoolWebsite_Python.py)      *)
(*   - the hospital portal (src/HospitalSite/hospital_single_LOCAL_31222.py)*)
(* Text values are sequences of one-character strings, so that strip(),    *)
(* lower() and substring search are computed rather than assumed.          *)
(***************************************************************************)
EXTENDS Integers, Sequences, FiniteSets, TLC

VARIABLES
    \* ---- school portal ----
    users,        \* User table: id -> [username, password_hash, role]
    session,      \* the user id held by the client's session, Anon when none
    flashes,      \* flashed messages waiting in the session for the next render
    students,     \* Student table: set of [id, roll_no, name, email]
    attendances,  \* Attendance table: set of [id, date, status, student_id]
    grades,       \* Grade table: set of [id, student_id, subject, marks, max_marks]
    debug,        \* app.debug
    req,          \* the request handled last
    resp,         \* the response to it
    \* ---- hospital portal ----
    patients,     \* Patient table: set of [id, first_name, last_name, age, condition]
    pseq,         \* the last id the Patient table handed out (AUTOINCREMENT)
    appointments, \* Appointment table: set of [id, doctor, patient, date, time]
    aseq,         \* the last id the Appointment table handed out
    hauth,        \* whether the client's session is logged in (django.contrib.auth)
    hreq,         \* the request the hospital portal handled last
    hresp,        \* the response to it
    \* ---- school portal: one call of render(name, **context) ----
    r_name,       \* the template name passed
    r_ctx,        \* the context passed: variable -> value
    r_env,        \* what the templates read besides: [auth, flashed]
    r_pc,         \* "call", "child" (child rendered), "done" or "raised"
    r_child,      \* child_html
    r_out,        \* the text returned
    \* ---- hospital portal: template contexts and Context.__copy__ ----
    c_heap,       \* the layer dicts that exist: object id -> ordered <<key, value>> pairs
    c_self,       \* the context that gets copied
    c_dup,        \* the duplicate, once copied
    c_pc,         \* "idle", "built" (before the copy), "copied" or "raised"
    \* ---- hospital portal: ensure_db_setup at program start ----
    s_tables,     \* the database file: table -> "absent", "empty" or "rows"
    s_pc,         \* where ensure_db_setup is, or how it ended
    s_migrate,    \* how the migrate command ended: "not run", "done" or "raised"
    s_missing,    \* missing_models, once computed
    s_created,    \* the tables create_missing_tables reported as created
    \* ---- hospital portal: seed_demo at program start ----
    h_users,      \* auth.User table: set of [id, username, password, superuser]
    h_doctors,    \* Doctor table: set of [id, user, specialty]
    seed_pc,      \* the statement seed_demo is at, "done", "raised" or "idle"
    \* ---- school portal: the program ----
    running,      \* TRUE while the program serves requests
    \* ---- school portal: requests handled at the same time, one per thread ----
    w_pc,         \* thread -> "idle", the statement its request is at, or "done"
    w_req,        \* thread -> the request it handles
    w_resp,       \* thread -> the response, or the session cookie the request came with
    w_students,   \* thread -> the student ids its attendance request read
    w_deleted,    \* thread -> the rows its open transaction deleted
    w_inserted,   \* thread -> the rows its open transaction inserted
    w_waited,     \* thread -> TRUE when it waited for the database's write lock
    w_lock        \* the thread whose transaction holds SQLite's write lock, or 0

schoolDb == <<students, attendances, grades>>
schoolVars == <<users, session, flashes, students, attendances, grades, debug, req, resp>>
hospitalVars == <<patients, pseq, appointments, aseq, hauth, hreq, hresp>>

\* what a request to the school portal cannot touch, and likewise for the hospital
renderVars == <<r_name, r_ctx, r_env, r_pc, r_child, r_out>>
contextVars == <<c_heap, c_self, c_dup, c_pc>>
setupVars == <<s_tables, s_pc, s_migrate, s_missing, s_created>>
seedVars == <<h_users, h_doctors, seed_pc>>
startVars == <<running>>
raceVars == <<w_pc, w_req, w_resp, w_students, w_deleted, w_inserted, w_waited, w_lock>>
notSchool == <<hospitalVars, renderVars, contextVars, setupVars, seedVars, startVars, raceVars>>
notHospital == <<schoolVars, renderVars, contextVars, setupVars, seedVars, startVars, raceVars>>
notRender == <<schoolVars, hospitalVars, contextVars, setupVars, seedVars, startVars, raceVars>>
notContext == <<schoolVars, hospitalVars, renderVars, setupVars, seedVars, startVars, raceVars>>
notSetup == <<schoolVars, hospitalVars, renderVars, contextVars, seedVars, startVars, raceVars>>
\* seed_demo writes the Patient table besides its own
notSeed == <<schoolVars, appointments, aseq, hauth, hreq, hresp, renderVars, contextVars,
             setupVars, startVars, raceVars>>
\* a start or a stop of the school portal leaves its database rows, the
\* client's cookie and everything outside the portal alone
notStart == <<session, flashes, students, attendances, grades, req, resp, hospitalVars,
              renderVars, contextVars, setupVars, seedVars, raceVars>>
\* a step of a request handled by a thread leaves these alone; it may write
\* the Student and Attendance tables and the session cookie's flashes
notRace == <<users, session, grades, debug, req, resp, hospitalVars, renderVars,
             contextVars, setupVars, seedVars, startVars>>
vars == <<users, session, flashes, students, attendances, grades, debug, req, resp,
          patients, pseq, appointments, aseq, hauth, hreq, hresp,
          r_name, r_ctx, r_env, r_pc, r_child, r_out,
          c_heap, c_self, c_dup, c_pc,
          s_tables, s_pc, s_migrate, s_missing, s_created,
          h_users, h_doctors, seed_pc, running,
          w_pc, w_req, w_resp, w_students, w_deleted, w_inserted, w_waited, w_lock>>

(***************************************************************************)
(* Bounds of the model                                                     *)
(***************************************************************************)
MaxGrades == 1
MaxFlash == 1
\* attendance is saved while the table's highest id is below MaxAttendanceId
MaxAttendanceId == 4

(***************************************************************************)
(* Text helpers                                                            *)
(***************************************************************************)
WS == {" "}

RECURSIVE lstrip(_)
lstrip(s) == IF s # <<>> /\ Head(s) \in WS THEN lstrip(Tail(s)) ELSE s

RECURSIVE rstrip(_)
rstrip(s) ==
    IF s # <<>> /\ s[Len(s)] \in WS THEN rstrip(SubSeq(s, 1, Len(s) - 1)) ELSE s

\* str.strip()
strip(s) == rstrip(lstrip(s))

\* lower case of an ASCII letter, on the letters the model uses
AsciiLowerChar(c) ==
    CASE c = "A" -> "a"
      [] c = "B" -> "b"
      [] c = "X" -> "x"
      [] c = "L" -> "l"
      [] c = "S" -> "s"
      [] OTHER -> c

\* Python str.lower(): every cased letter, ASCII or not
LowerChar(c) == IF c = "É" THEN "é" ELSE AsciiLowerChar(c)

lower(s) == [i \in 1..Len(s) |-> LowerChar(s[i])]

\* the case folding of SQLite's LIKE and lower(): ASCII letters only
sqlite_lower(s) == [i \in 1..Len(s) |-> AsciiLowerChar(s[i])]

\* sub occurs in s as a contiguous run
Contains(s, sub) ==
    \E i \in 0..(Len(s) - Len(sub)) : SubSeq(s, i + 1, i + Len(sub)) = sub

\* a LIKE that compares case as Python's str.lower() would
icontains_unicode(s, q) == Contains(lower(s), lower(q))

\* SQL ILIKE '%q%' / Django __icontains on SQLite (q free of wildcard characters)
icontains(s, q) == Contains(sqlite_lower(s), sqlite_lower(q))

DigitVal(c) ==
    CASE c = "0" -> 0 [] c = "1" -> 1 [] c = "2" -> 2 [] c = "3" -> 3 [] c = "4" -> 4
      [] c = "5" -> 5 [] c = "6" -> 6 [] c = "7" -> 7 [] c = "8" -> 8 [] c = "9" -> 9
      [] OTHER -> -1

RECURSIVE DigitsVal(_, _)
DigitsVal(s, acc) ==
    IF s = <<>> THEN acc ELSE DigitsVal(Tail(s), 10 * acc + DigitVal(Head(s)))

AllDigits(s) == s # <<>> /\ \A i \in 1..Len(s) : DigitVal(s[i]) >= 0

\* Python int(text): blanks around, an optional sign, decimal digits
ParseInt(text) ==
    LET t == strip(text)
        signed == t # <<>> /\ Head(t) \in {"-", "+"}
        digits == IF signed THEN Tail(t) ELSE t
    IN IF AllDigits(digits)
       THEN [ok |-> TRUE,
             val |-> IF signed /\ Head(t) = "-" THEN 0 - DigitsVal(digits, 0)
                     ELSE DigitsVal(digits, 0)]
       ELSE [ok |-> FALSE, val |-> 0]

DigitChar(d) ==
    CASE d = 0 -> "0" [] d = 1 -> "1" [] d = 2 -> "2" [] d = 3 -> "3" [] d = 4 -> "4"
      [] d = 5 -> "5" [] d = 6 -> "6" [] d = 7 -> "7" [] d = 8 -> "8" [] OTHER -> "9"

\* Python str(n) of an integer
RECURSIVE IntText(_)
IntText(n) ==
    IF n < 0 THEN <<"-">> \o IntText(0 - n)
    ELSE IF n < 10 THEN <<DigitChar(n)>>
    ELSE IntText(n \div 10) \o <<DigitChar(n % 10)>>

\* the string of n copies of c
Rep(c, n) == [i \in 1..n |-> c]

SeqMax(S) == IF S = {} THEN 0 ELSE CHOOSE m \in S : \A x \in S : x <= m

Range(s) == {s[i] : i \in 1..Len(s)}

(***************************************************************************)
(* School portal: models                                                   *)
(***************************************************************************)
Anon == 0

admin == <<"a", "d", "m", "i", "n">>
Salts == {"s1", "s2"}

\* werkzeug generate_password_hash: a salted one-way digest
PwHash(salt, password) == [salt |-> salt, digest |-> <<"H", salt, password>>]

\* a check_password that accepts any password
check_password_any(hash, password) == TRUE

\* User.check_password
check_password(hash, password) == hash = PwHash(hash.salt, password)

\* User.query.filter_by(username=...).first()
UserByName(name) == {u \in DOMAIN users : users[u].username = name}

\* flask_login current_user.is_authenticated, through load_user
is_authenticated(s) == s # Anon /\ s \in DOMAIN users

\* a login_required that lets every session through
login_required_off(s) == TRUE

\* @login_required: the view runs only for an authenticated session
login_required(s) == is_authenticated(s)

\* SQLite rowid assignment for an INTEGER PRIMARY KEY
NextId(rows) == SeqMax({r.id : r \in rows}) + 1

(***************************************************************************)
(* School portal: forms                                                    *)
(***************************************************************************)
UsernameMax == 64
RollMax == 20
NameMax == 120

\* wtforms DataRequired on a text field
DataRequired(v) == v # <<>> /\ strip(v) # <<>>

\* wtforms Length(min, max)
LengthOk(v, lo, hi) == Len(v) >= lo /\ Len(v) <= hi

\* wtforms Email() after Optional(): an empty field skips the check
EmailOk(v) == strip(v) = <<>> \/ (Contains(v, <<"@">>) /\ v[1] # "@" /\ v[Len(v)] # "@")

\* FlaskForm.validate_on_submit for LoginForm
LoginFormValid(r) ==
    /\ r.method = "POST"
    /\ r.csrf
    /\ DataRequired(r.form.username) /\ LengthOk(r.form.username, 1, UsernameMax)
    /\ DataRequired(r.form.password)

\* FlaskForm.validate_on_submit for EnrollForm
EnrollFormValid(r) ==
    /\ r.method = "POST"
    /\ r.csrf
    /\ DataRequired(r.form.roll_no) /\ LengthOk(r.form.roll_no, 1, RollMax)
    /\ DataRequired(r.form.name) /\ LengthOk(r.form.name, 1, NameMax)
    /\ EmailOk(r.form.email)

(***************************************************************************)
(* School portal: responses                                                *)
(***************************************************************************)
MsgLoggedIn == "Logged in successfully."
MsgInvalid == "Invalid username or password."
MsgRollExists == "Roll Number already exists."
MsgEnrolled == "Student enrolled."
MsgAttendance == "Attendance saved."
MsgGrade == "Grade saved."
MsgPleaseLogIn == "Please log in to access this page."

NoData == <<>>

\* redirect(url_for(endpoint))
Redirect(endpoint) ==
    [kind |-> "redirect", status |-> 302, target |-> endpoint,
     messages |-> <<>>, data |-> NoData]

\* render(name, ...): the page shows, and so consumes, every flashed message
Page(name, msgs, data) ==
    [kind |-> "page", status |-> 200, target |-> name, messages |-> msgs, data |-> data]

\* an exception escaping the view, or abort(code)
Failure(code) ==
    [kind |-> "error", status |-> code, target |-> "", messages |-> <<>>, data |-> NoData]

\* the endpoint named by login.login_view
login_view == "login"

\* the next state of a request that renders `name`, flashing `new` first
Render(name, new, data) ==
    /\ resp' = Page(name, flashes \o new, data)
    /\ flashes' = <<>>

\* the next state of a request that flashes `new` and answers without rendering
Answer(r, new) ==
    /\ resp' = r
    /\ flashes' = flashes \o new

ProtectedRoutes ==
    {"index", "students", "enroll", "view_student", "attendance", "grades",
     "export_students", "report"}

\* flask_login unauthorized(): flash the login message, redirect to login_view
Unauthorized ==
    /\ Len(flashes) < MaxFlash
    /\ Answer(Redirect(login_view), <<MsgPleaseLogIn>>)

(***************************************************************************)
(* School portal: queries                                                  *)
(***************************************************************************)
CharRank(c) ==
    CASE c = " " -> 0
      [] c = "@" -> 1
      [] c = "A" -> 2
      [] c = "B" -> 3
      [] OTHER -> 4

\* a < b for two strings, as the database collates them
RECURSIVE StrLess(_, _)
StrLess(a, b) ==
    IF b = <<>> THEN FALSE
    ELSE IF a = <<>> THEN TRUE
    ELSE IF CharRank(Head(a)) # CharRank(Head(b)) THEN CharRank(Head(a)) < CharRank(Head(b))
    ELSE StrLess(Tail(a), Tail(b))

\* Student.query.order_by(Student.roll_no).all(), as the list of ids
RECURSIVE OrderByRoll(_)
OrderByRoll(rows) ==
    IF rows = {} THEN <<>>
    ELSE LET first == CHOOSE r \in rows :
                 \A o \in rows \ {r} : StrLess(r.roll_no, o.roll_no)
                                       \/ (r.roll_no = o.roll_no /\ r.id < o.id)
         IN <<first.id>> \o OrderByRoll(rows \ {first})

\* rows in primary-key order, as the list of ids
RECURSIVE OrderById(_)
OrderById(rows) ==
    IF rows = {} THEN <<>>
    ELSE LET first == CHOOSE r \in rows : \A o \in rows : r.id <= o.id
         IN <<first.id>> \o OrderById(rows \ {first})

Reverse(s) == [i \in 1..Len(s) |-> s[Len(s) + 1 - i]]

\* Student.query.filter_by(roll_no=...).first()
StudentByRoll(roll) == {s \in students : s.roll_no = roll}

\* Attendance.query.filter_by(date=d, status='Present').count()
PresentCount(d) == Cardinality({a \in attendances : a.date = d /\ a.status = "Present"})

(***************************************************************************)
(* School portal: dates                                                    *)
(***************************************************************************)
ReportDays == 7

\* date.today(), as a day number
Today == ReportDays

\* date.fromisoformat: the day number of an ISO date text, -1 when it raises
fromisoformat(t) ==
    CASE t = "2024-01-07" -> 7
      [] t = "2024-01-06" -> 6
      [] OTHER -> -1

(***************************************************************************)
(* School portal: request handlers                                         *)
(***************************************************************************)
\* /login
login(r) ==
    /\ r.route = "login"
    /\ req' = r
    /\ IF is_authenticated(session)
       THEN Answer(Redirect("index"), <<>>) /\ UNCHANGED session
       ELSE IF LoginFormValid(r)
       THEN LET found == UserByName(r.form.username) IN
            IF found # {} /\ check_password(users[CHOOSE u \in found : TRUE].password_hash,
                                            r.form.password)
            THEN /\ Len(flashes) < MaxFlash
                 /\ session' = CHOOSE u \in found : TRUE
                 /\ Answer(Redirect("index"), <<MsgLoggedIn>>)
            ELSE Render("login.html", <<MsgInvalid>>, NoData) /\ UNCHANGED session
       ELSE Render("login.html", <<>>, NoData) /\ UNCHANGED session
    /\ UNCHANGED <<users, students, attendances, grades, debug>>
    /\ UNCHANGED notSchool

\* a logout that leaves the session as it is
logout_keep(r) ==
    /\ r.route = "logout"
    /\ req' = r
    /\ Answer(Redirect("login"), <<>>)
    /\ UNCHANGED <<session, users, students, attendances, grades, debug>>
    /\ UNCHANGED notSchool

\* /logout
logout(r) ==
    /\ r.route = "logout"
    /\ req' = r
    /\ session' = Anon
    /\ Answer(Redirect("login"), <<>>)
    /\ UNCHANGED <<users, students, attendances, grades, debug>>
    /\ UNCHANGED notSchool

\* /
index(r) ==
    /\ r.route = "index"
    /\ req' = r
    /\ IF ~login_required(session) THEN Unauthorized
       ELSE Render("index.html", <<>>, <<Cardinality(students), PresentCount(Today)>>)
    /\ UNCHANGED <<users, session, students, attendances, grades, debug>>
    /\ UNCHANGED notSchool

\* /students
students_view(r) ==
    /\ r.route = "students"
    /\ req' = r
    /\ IF ~login_required(session) THEN Unauthorized
       ELSE IF r.q # <<>>
       THEN Render("students.html", <<>>,
                   OrderById({s \in students : icontains(s.name, r.q)
                                               \/ icontains(s.roll_no, r.q)}))
       ELSE Render("students.html", <<>>, OrderByRoll(students))
    /\ UNCHANGED <<users, session, students, attendances, grades, debug>>
    /\ UNCHANGED notSchool

\* /enroll
enroll(r) ==
    /\ r.route = "enroll"
    /\ req' = r
    /\ IF ~login_required(session) THEN Unauthorized /\ UNCHANGED students
       ELSE IF EnrollFormValid(r)
       THEN IF StudentByRoll(r.form.roll_no) # {}
            THEN Render("enroll.html", <<MsgRollExists>>, NoData) /\ UNCHANGED students
            ELSE IF StudentByRoll(strip(r.form.roll_no)) # {}
            \* the UNIQUE constraint on roll_no rejects the INSERT: IntegrityError
            THEN Answer(Failure(500), <<>>) /\ UNCHANGED students
            ELSE /\ Len(flashes) < MaxFlash
                 /\ students' = students \cup
                        {[id |-> NextId(students), roll_no |-> strip(r.form.roll_no),
                          name |-> strip(r.form.name), email |-> r.form.email]}
                 /\ Answer(Redirect("students"), <<MsgEnrolled>>)
       ELSE Render("enroll.html", <<>>, NoData) /\ UNCHANGED students
    /\ UNCHANGED <<users, session, attendances, grades, debug>>
    /\ UNCHANGED notSchool

\* /student/<int:student_id>
view_student(r) ==
    /\ r.route = "view_student"
    /\ req' = r
    /\ IF ~login_required(session) THEN Unauthorized
       ELSE IF {s \in students : s.id = r.student_id} = {}
       THEN Answer(Failure(404), <<>>)
       ELSE Render("view_student.html", <<>>,
                   <<r.student_id>>
                   \o Reverse(OrderById({a \in attendances : a.student_id = r.student_id}))
                   \o Reverse(OrderById({g \in grades : g.student_id = r.student_id})))
    /\ UNCHANGED <<users, session, students, attendances, grades, debug>>
    /\ UNCHANGED notSchool

\* an attendance POST that marks every student present
NewAttendance_present(ids, d, form, rows) ==
    rows \cup {[id |-> SeqMax({r.id : r \in rows}) + i, date |-> d, status |-> "Present",
                student_id |-> ids[i]] : i \in 1..Len(ids)}

\* the rows the attendance POST adds, one per student in list order
RECURSIVE NewAttendance(_, _, _, _)
NewAttendance(ids, d, form, rows) ==
    IF ids = <<>> THEN rows
    ELSE NewAttendance(Tail(ids), d, form,
             rows \cup {[id |-> NextId(rows), date |-> d,
                         status |-> IF Head(ids) \in DOMAIN form THEN form[Head(ids)]
                                    ELSE "Absent",
                         student_id |-> Head(ids)]})

\* an attendance POST that removes no old record
without_date_kept(rows, d) == rows

\* Attendance.query.filter_by(date=d).delete()
without_date(rows, d) == {a \in rows : a.date # d}

\* the Attendance table after the POST for date d committed
save_attendance(rows, ids, d, form) == NewAttendance(ids, d, form, without_date(rows, d))

\* /attendance
attendance(r) ==
    /\ r.route = "attendance"
    /\ req' = r
    /\ IF ~login_required(session) THEN Unauthorized /\ UNCHANGED attendances
       ELSE IF r.args_date # "" /\ fromisoformat(r.args_date) < 0
       THEN Answer(Failure(500), <<>>) /\ UNCHANGED attendances
       ELSE IF r.method = "POST"
       THEN IF fromisoformat(r.form_date) < 0
            THEN Answer(Failure(500), <<>>) /\ UNCHANGED attendances
            ELSE LET d == fromisoformat(r.form_date) IN
                 /\ Len(flashes) < MaxFlash
                 /\ attendances' = save_attendance(attendances, OrderByRoll(students), d,
                                                   r.statuses)
                 /\ Answer(Redirect("attendance"), <<MsgAttendance>>)
       ELSE /\ Render("attendance.html", <<>>, OrderByRoll(students))
            /\ UNCHANGED attendances
    /\ UNCHANGED <<users, session, students, grades, debug>>
    /\ UNCHANGED notSchool

\* FlaskForm.validate_on_submit for GradeForm
GradeFormValid(r) ==
    /\ r.method = "POST"
    /\ r.csrf
    /\ r.form.student_id \in {s.id : s \in students}
    /\ DataRequired(r.form.subject)
    /\ r.form.marks # 0 /\ r.form.marks >= 0

\* /grades
grades_view(r) ==
    /\ r.route = "grades"
    /\ req' = r
    /\ IF ~login_required(session) THEN Unauthorized /\ UNCHANGED grades
       ELSE IF GradeFormValid(r)
       THEN /\ Cardinality(grades) < MaxGrades
            /\ Len(flashes) < MaxFlash
            /\ grades' = grades \cup
                   {[id |-> NextId(grades), student_id |-> r.form.student_id,
                     subject |-> strip(r.form.subject), marks |-> r.form.marks,
                     max_marks |-> 100]}
            /\ Answer(Redirect("grades"), <<MsgGrade>>)
       ELSE /\ Render("grades.html", <<>>, Reverse(OrderById(grades)))
            /\ UNCHANGED grades
    /\ UNCHANGED <<users, session, students, attendances, debug>>
    /\ UNCHANGED notSchool

\* /export/students.csv
export_students(r) ==
    /\ r.route = "export_students"
    /\ req' = r
    /\ IF ~login_required(session) THEN Unauthorized
       ELSE Answer([kind |-> "file", status |-> 200, target |-> "students.csv",
                    messages |-> <<>>, data |-> OrderByRoll(students)], <<>>)
    /\ UNCHANGED <<users, session, students, attendances, grades, debug>>
    /\ UNCHANGED notSchool

\* /report
report(r) ==
    /\ r.route = "report"
    /\ req' = r
    /\ IF ~login_required(session) THEN Unauthorized
       ELSE Render("report.html", <<>>,
                   [i \in 1..ReportDays |-> PresentCount(Today - (i - 1))])
    /\ UNCHANGED <<users, session, students, attendances, grades, debug>>
    /\ UNCHANGED notSchool

\* the JSON body of a request: none (the body is a form or empty), an object
\* with or without a "password" member, or a non-empty array
NoJson == [kind |-> "none", password |-> <<>>]
JsonObject(password) == [kind |-> "object", password |-> password]
JsonArray == [kind |-> "array", password |-> <<>>]

\* request.json of a request whose content type is not JSON: None in older
\* Flask releases (then "Provide password", 400), a 400 or a 415 error in
\* later ones; the program pins no release
NotJsonStatuses == {400, 415}

\* request.form.get('password') or (request.json or {}).get('password'), and
\* the check of it: the password to set under status 200, or the status the
\* request ends with
newpw(r, not_json) ==
    IF r.password # <<>> THEN [status |-> 200, val |-> r.password]
    ELSE IF r.json.kind = "none" THEN [status |-> not_json, val |-> <<>>]
    ELSE IF r.json.kind = "array" THEN [status |-> 500, val |-> <<>>]
    ELSE IF r.json.password = <<>> THEN [status |-> 400, val |-> <<>>]
    ELSE [status |-> 200, val |-> r.json.password]

\* /init-admin
init_admin(r) ==
    /\ r.route = "init_admin"
    /\ req' = r
    /\ IF ~debug THEN Answer(Failure(403), <<>>) /\ UNCHANGED users
       ELSE IF r.method = "GET"
       THEN Answer([kind |-> "page", status |-> 200, target |-> "init-admin",
                    messages |-> <<>>, data |-> NoData], <<>>) /\ UNCHANGED users
       ELSE \E not_json \in NotJsonStatuses :
              LET new == newpw(r, not_json)
              IN IF new.status # 200
                 THEN Answer(Failure(new.status), <<>>) /\ UNCHANGED users
                 ELSE /\ \E salt \in Salts :
                           LET found == UserByName(admin)
                               u == IF found # {} THEN CHOOSE x \in found : TRUE
                                    ELSE SeqMax(DOMAIN users) + 1
                           IN users' = [x \in DOMAIN users \cup {u} |->
                                          IF x = u
                                          THEN [username |-> admin, role |-> "admin",
                                                password_hash |-> PwHash(salt, new.val)]
                                          ELSE users[x]]
                      /\ Answer([kind |-> "page", status |-> 200, target |-> "init-admin",
                                 messages |-> <<>>, data |-> NoData], <<>>)
    /\ UNCHANGED <<session, students, attendances, grades, debug>>
    /\ UNCHANGED notSchool

(***************************************************************************)
(* School portal: startup                                                  *)
(***************************************************************************)
\* ensure_db_and_admin with the check left out: the admin's password is set
\* to 'admin' at every start
with_default_admin_reset(us, salt) ==
    LET found == {u \in DOMAIN us : us[u].username = admin}
        u == IF found # {} THEN CHOOSE x \in found : TRUE ELSE SeqMax(DOMAIN us) + 1
    IN [x \in DOMAIN us \cup {u} |->
          IF x = u THEN [username |-> admin, role |-> "admin",
                         password_hash |-> PwHash(salt, admin)]
          ELSE us[x]]

\* the User table after ensure_db_and_admin ran on the table us
with_default_admin(us, salt) ==
    IF {u \in DOMAIN us : us[u].username = admin} # {} THEN us
    ELSE [x \in DOMAIN us \cup {SeqMax(DOMAIN us) + 1} |->
            IF x \in DOMAIN us THEN us[x]
            ELSE [username |-> admin, role |-> "admin",
                  password_hash |-> PwHash(salt, admin)]]

\* python SchoolWebsite_Python.py: ensure_db_and_admin(), then app.run(debug=True)
main ==
    /\ ~running
    /\ \E salt \in Salts : users' = with_default_admin(users, salt)
    /\ debug' = TRUE
    /\ running' = TRUE
    /\ UNCHANGED notStart

\* the module is imported by a production server on the database an earlier
\* run of main created: no ensure_db_and_admin, and app.debug stays False
served ==
    /\ ~running
    /\ UserByName(admin) # {}
    /\ debug' = FALSE
    /\ running' = TRUE
    /\ UNCHANGED users
    /\ UNCHANGED notStart

\* the program is stopped; the database file and the client's cookie stay
stopped ==
    /\ running
    /\ running' = FALSE
    /\ UNCHANGED <<users, debug>>
    /\ UNCHANGED notStart

(***************************************************************************)
(* School portal: requests handled at the same time                        *)
(* The development server handles each request in a thread of its own,    *)
(* with a database connection of its own.  A SELECT runs outside any       *)
(* transaction; the first DELETE or INSERT of a request begins one and     *)
(* takes SQLite's write lock, which commit releases.                       *)
(***************************************************************************)
Threads == {1, 2}

Idle == [route |-> "none", method |-> "GET"]

NoResponse ==
    [kind |-> "none", status |-> 0, target |-> "", messages |-> <<>>, data |-> NoData]

\* the request is being handled; messages holds the flashes its cookie came with
Pending(cookie) ==
    [kind |-> "pending", status |-> 0, target |-> "", messages |-> cookie, data |-> NoData]

NoRace ==
    /\ w_pc = [t \in Threads |-> "idle"]
    /\ w_req = [t \in Threads |-> Idle]
    /\ w_resp = [t \in Threads |-> NoResponse]
    /\ w_students = [t \in Threads |-> <<>>]
    /\ w_deleted = [t \in Threads |-> {}]
    /\ w_inserted = [t \in Threads |-> {}]
    /\ w_waited = [t \in Threads |-> FALSE]
    /\ w_lock = 0

\* a database without a write lock
can_write_always(t) == TRUE

\* sqlite:///school_single.sqlite: one transaction writes at a time
can_write(t) == w_lock \in {0, t}

\* the thread's request ends with the response r and the flashes `cookie`
Ends(t, r, cookie) ==
    /\ w_pc' = [w_pc EXCEPT ![t] = "done"]
    /\ w_resp' = [w_resp EXCEPT ![t] = r]
    /\ flashes' = cookie

\* enroll up to the existence check of line 564
enroll_check(t, r) ==
    /\ r.route = "enroll"
    /\ w_pc[t] = "idle"
    /\ Len(flashes) < MaxFlash
    /\ w_req' = [w_req EXCEPT ![t] = r]
    /\ IF ~login_required(session)
       THEN Ends(t, Redirect(login_view), flashes \o <<MsgPleaseLogIn>>)
       ELSE IF ~EnrollFormValid(r)
       THEN Ends(t, Page("enroll.html", flashes, NoData), <<>>)
       ELSE IF StudentByRoll(r.form.roll_no) # {}
       THEN Ends(t, Page("enroll.html", flashes \o <<MsgRollExists>>, NoData), <<>>)
       ELSE /\ w_pc' = [w_pc EXCEPT ![t] = "checked"]
            /\ w_resp' = [w_resp EXCEPT ![t] = Pending(flashes)]
            /\ UNCHANGED flashes
    /\ UNCHANGED <<students, attendances, w_students, w_deleted, w_inserted, w_waited, w_lock>>
    /\ UNCHANGED notRace

\* enroll from line 567: the INSERT and the commit, in one transaction
enroll_commit(t) ==
    /\ w_req[t].route = "enroll"
    /\ w_pc[t] = "checked"
    /\ can_write(t)
    /\ IF StudentByRoll(strip(w_req[t].form.roll_no)) # {}
       \* the UNIQUE constraint on roll_no rejects the INSERT: IntegrityError
       THEN Ends(t, Failure(500), flashes) /\ UNCHANGED students
       ELSE /\ students' = students \cup
                   {[id |-> NextId(students), roll_no |-> strip(w_req[t].form.roll_no),
                     name |-> strip(w_req[t].form.name), email |-> w_req[t].form.email]}
            /\ Ends(t, Redirect("students"), w_resp[t].messages \o <<MsgEnrolled>>)
    /\ UNCHANGED <<attendances, w_req, w_students, w_deleted, w_inserted, w_waited, w_lock>>
    /\ UNCHANGED notRace

\* attendance, a POST, up to line 592: the student list is read
attendance_read(t, r) ==
    /\ r.route = "attendance" /\ r.method = "POST"
    /\ w_pc[t] = "idle"
    /\ Len(flashes) < MaxFlash
    /\ w_req' = [w_req EXCEPT ![t] = r]
    /\ IF ~login_required(session)
       THEN Ends(t, Redirect(login_view), flashes \o <<MsgPleaseLogIn>>) /\ UNCHANGED w_students
       ELSE IF (r.args_date # "" /\ fromisoformat(r.args_date) < 0)
               \/ fromisoformat(r.form_date) < 0
       THEN Ends(t, Failure(500), flashes) /\ UNCHANGED w_students
       ELSE /\ w_pc' = [w_pc EXCEPT ![t] = "read"]
            /\ w_resp' = [w_resp EXCEPT ![t] = Pending(flashes)]
            /\ w_students' = [w_students EXCEPT ![t] = OrderByRoll(students)]
            /\ UNCHANGED flashes
    /\ UNCHANGED <<students, attendances, w_deleted, w_inserted, w_waited, w_lock>>
    /\ UNCHANGED notRace

\* line 594: the DELETE begins the transaction and takes the write lock
attendance_delete(t) ==
    /\ w_req[t].route = "attendance"
    /\ w_pc[t] = "read"
    /\ can_write(t)
    /\ w_lock' = t
    /\ w_deleted' = [w_deleted EXCEPT ![t] =
                        {a \in attendances : a.date = fromisoformat(w_req[t].form_date)}]
    /\ w_pc' = [w_pc EXCEPT ![t] = "deleted"]
    /\ UNCHANGED <<students, attendances, flashes, w_req, w_resp, w_students, w_inserted,
                   w_waited>>
    /\ UNCHANGED notRace

\* line 594 while another transaction holds the write lock: the DELETE waits
attendance_wait(t) ==
    /\ w_req[t].route = "attendance"
    /\ w_pc[t] = "read"
    /\ ~can_write(t)
    /\ ~w_waited[t]
    /\ w_waited' = [w_waited EXCEPT ![t] = TRUE]
    /\ UNCHANGED <<students, attendances, flashes, w_pc, w_req, w_resp, w_students,
                   w_deleted, w_inserted, w_lock>>
    /\ UNCHANGED notRace

\* the wait outlasts the connection's timeout: OperationalError, database is locked
attendance_locked(t) ==
    /\ w_req[t].route = "attendance"
    /\ w_pc[t] = "read"
    /\ ~can_write(t)
    /\ w_waited[t]
    /\ Ends(t, Failure(500), flashes)
    /\ UNCHANGED <<students, attendances, w_req, w_students, w_deleted, w_inserted,
                   w_waited, w_lock>>
    /\ UNCHANGED notRace

\* the table as the thread's open transaction sees it
Seen(t) == (attendances \ w_deleted[t]) \cup w_inserted[t]

\* lines 595-598, flushed by commit(): one INSERT per student read at line 590
attendance_insert(t) ==
    /\ w_req[t].route = "attendance"
    /\ w_pc[t] = "deleted"
    /\ w_inserted' = [w_inserted EXCEPT ![t] =
                         NewAttendance(w_students[t], fromisoformat(w_req[t].form_date),
                                       w_req[t].statuses, Seen(t)) \ Seen(t)]
    /\ w_pc' = [w_pc EXCEPT ![t] = "inserted"]
    /\ UNCHANGED <<students, attendances, flashes, w_req, w_resp, w_students, w_deleted,
                   w_waited, w_lock>>
    /\ UNCHANGED notRace

\* line 599: COMMIT makes the transaction's deletes and inserts the table's
attendance_commit(t) ==
    /\ w_req[t].route = "attendance"
    /\ w_pc[t] = "inserted"
    /\ attendances' = Seen(t)
    /\ w_lock' = IF w_lock = t THEN 0 ELSE w_lock
    /\ w_deleted' = [w_deleted EXCEPT ![t] = {}]
    /\ w_inserted' = [w_inserted EXCEPT ![t] = {}]
    /\ Ends(t, Redirect("attendance"), w_resp[t].messages \o <<MsgAttendance>>)
    /\ UNCHANGED <<students, w_req, w_students, w_waited>>
    /\ UNCHANGED notRace

\* the response has been sent and the thread takes the next request
handled(t) ==
    /\ w_pc[t] = "done"
    /\ w_pc' = [w_pc EXCEPT ![t] = "idle"]
    /\ w_req' = [w_req EXCEPT ![t] = Idle]
    /\ w_resp' = [w_resp EXCEPT ![t] = NoResponse]
    /\ w_students' = [w_students EXCEPT ![t] = <<>>]
    /\ w_waited' = [w_waited EXCEPT ![t] = FALSE]
    /\ UNCHANGED <<students, attendances, flashes, w_deleted, w_inserted, w_lock>>
    /\ UNCHANGED notRace

(***************************************************************************)
(* Hospital portal: models and queries                                     *)
(***************************************************************************)
MaxPid == 3
MaxAid == 1
MaxPageSize == 2
\* seeded patients may be deleted while fewer than MaxSeeded ids were given out
MaxSeeded == 3

\* the Doctor table after seed_demo: dr_smith, shown by his full name
Doctors == {[id |-> 1, name |-> <<"J", "S">>]}

\* the account seed_demo creates for /admin/
AdminPassword == <<"a", "d", "m", "i", "n", "1", "2", "3">>

\* what seed_demo stores
dr_smith == <<"d", "r", "_", "s", "m", "i", "t", "h">>
Alice == <<"A", "l", "i", "c", "e">>
Brown == <<"B", "r", "o", "w", "n">>
Bob == <<"B", "o", "b">>
Green == <<"G", "r", "e", "e", "n">>
Checkup == <<"C", "h", "e", "c", "k", "u", "p">>
Diabetes == <<"D", "i", "a", "b", "e", "t", "e", "s">>
AliceAge == 30
BobAge == 45

\* a request that was not made yet, and its response
NoRequest ==
    /\ hauth = FALSE
    /\ hreq = [route |-> "none", method |-> "GET"]
    /\ hresp = [kind |-> "none", status |-> 0]

\* a new database: the tables exist or are about to, and hold no row
EmptyTables ==
    /\ patients = {}
    /\ pseq = 0
    /\ appointments = {}
    /\ aseq = 0
    /\ NoRequest

\* the tables when the server starts on a new database: seed_demo has stored
\* its two patients
InitHospital ==
    /\ patients = {[id |-> 1, first_name |-> Alice, last_name |-> Brown, age |-> AliceAge,
                    condition |-> Checkup],
                   [id |-> 2, first_name |-> Bob, last_name |-> Green, age |-> BobAge,
                    condition |-> Diabetes]}
    /\ pseq = 2
    /\ appointments = {}
    /\ aseq = 0
    /\ NoRequest

\* rows in primary-key order
RECURSIVE RowsById(_)
RowsById(rows) ==
    IF rows = {} THEN <<>>
    ELSE LET first == CHOOSE r \in rows : \A o \in rows : r.id <= o.id
         IN <<first>> \o RowsById(rows \ {first})

Ids(rows) == [i \in 1..Len(rows) |-> rows[i].id]

\* Q(first_name__icontains=q) | Q(last_name__icontains=q) | Q(condition__icontains=q)
Matches(pt, q) ==
    \/ icontains(pt.first_name, q)
    \/ icontains(pt.last_name, q)
    \/ icontains(pt.condition, q)

\* a filter that looks at the two names only
ListQuery_names_only(q) ==
    RowsById(IF q # <<>>
             THEN {pt \in patients : icontains(pt.first_name, q) \/ icontains(pt.last_name, q)}
             ELSE patients)

\* patients_list: Patient.objects.all().order_by("id"), filtered when q is not empty
ListQuery(q) ==
    RowsById(IF q # <<>> THEN {pt \in patients : Matches(pt, q)} ELSE patients)

\* export_patients: the same query, written a second time
ExportQuery(q) ==
    RowsById(IF q # <<>> THEN {pt \in patients : Matches(pt, q)} ELSE patients)

\* p.appointments.all()
ApptsOf(pid) == RowsById({a \in appointments : a.patient = pid})

\* ", ".join(sorted({doctor names})): the names, each once, in order
DoctorNames(pid) ==
    LET ds == RowsById({d \in Doctors :
                          \E a \in appointments : a.patient = pid /\ a.doctor = d.id})
    IN [i \in 1..Len(ds) |-> ds[i].name]

(***************************************************************************)
(* Hospital portal: django.core.paginator.Paginator as patients_list uses it*)
(***************************************************************************)
DefaultPageSize == 10

\* Paginator.num_pages with orphans = 0 and allow_empty_first_page
NumPages(count, per_page) ==
    LET hits == IF count > 1 THEN count ELSE 1
    IN IF per_page > 0 THEN (hits + per_page - 1) \div per_page
       ELSE 0 - (hits \div (0 - per_page))

\* request.GET.get("page") or 1, then int() of it in Paginator.validate_number
PageParam(page) == IF page = <<>> THEN [ok |-> TRUE, val |-> 1] ELSE ParseInt(page)

\* Paginator.validate_number on the page parameter
ValidateNumber(page, num_pages) ==
    LET n == PageParam(page)
    IN IF ~n.ok THEN [raised |-> "PageNotAnInteger", number |-> 0]
       ELSE IF n.val < 1 \/ n.val > num_pages THEN [raised |-> "EmptyPage", number |-> 0]
       ELSE [raised |-> "", number |-> n.val]

\* a slice that starts one row late
PageSlice_late(rows, per_page, number) ==
    LET bottom == (number - 1) * per_page + 1
        top == IF bottom + per_page >= Len(rows) THEN Len(rows) ELSE bottom + per_page
    IN SubSeq(rows, bottom + 1, top)

\* Paginator.page(number).object_list: object_list[bottom:top]
PageSlice(rows, per_page, number) ==
    LET bottom == (number - 1) * per_page
        top == IF bottom + per_page >= Len(rows) THEN Len(rows) ELSE bottom + per_page
    IN SubSeq(rows, bottom + 1, top)

\* an EmptyPage handler that falls back to the first page
PageNumber_first(page, num_pages) ==
    LET v == ValidateNumber(page, num_pages)
    IN IF v.raised = "" THEN v.number ELSE 1

\* the try/except around paginator.page(page_num): the page shown, 0 when the
\* fallback raises in its turn
PageNumber(page, num_pages) ==
    LET v == ValidateNumber(page, num_pages)
    IN IF v.raised = "" THEN v.number
       ELSE IF v.raised = "PageNotAnInteger"
       THEN (IF num_pages >= 1 THEN 1 ELSE 0)
       ELSE (IF num_pages >= 1 THEN num_pages ELSE 0)

Min(a, b) == IF a < b THEN a ELSE b
Max(a, b) == IF a > b THEN a ELSE b

\* the response of patients_list to q, page and page_size as the client sent them
ListResponse(q, page, page_size) ==
    LET size == IF page_size = <<>> THEN [ok |-> TRUE, val |-> DefaultPageSize]
                ELSE ParseInt(page_size)
    IN IF ~size.ok \/ size.val = 0 THEN [kind |-> "error", status |-> 500]
       ELSE LET rows == ListQuery(strip(q))
                total == NumPages(Len(rows), size.val)
                current == PageNumber(page, total)
            IN IF current = 0 THEN [kind |-> "error", status |-> 500]
               ELSE [kind |-> "page", status |-> 200, number |-> current,
                     num_pages |-> total,
                     object_list |-> Ids(PageSlice(rows, size.val, current)),
                     page_range |-> [i \in 1..(Min(total, current + 3) - Max(1, current - 3) + 1)
                                       |-> Max(1, current - 3) + i - 1]]

(***************************************************************************)
(* Hospital portal: export                                                 *)
(***************************************************************************)
ExportHeader == <<"ID", "First", "Last", "Age", "Condition", "Doctors", "Appointments">>

xlsx == <<"x", "l", "s", "x">>
csv == <<"c", "s", "v">>

\* one exported row of a patient
ExportRow(pt) ==
    LET appts == ApptsOf(pt.id)
    IN <<IntText(pt.id), pt.first_name, pt.last_name, IntText(pt.age), pt.condition,
         DoctorNames(pt.id),
         [i \in 1..Len(appts) |-> <<appts[i].date, appts[i].time>>]>>

ExportRows(q) ==
    LET found == ExportQuery(strip(q))
    IN <<ExportHeader>> \o [i \in 1..Len(found) |-> ExportRow(found[i])]

\* a format taken as the client wrote it
ExportFormat_as_sent(format) == IF format = <<>> THEN csv ELSE format

\* (request.GET.get("format") or "csv").lower()
ExportFormat(format) == lower(IF format = <<>> THEN csv ELSE format)

\* the response of export_patients; workbook tells whether openpyxl built the file
ExportResponse(format, q, workbook) ==
    IF ExportFormat(format) = xlsx /\ workbook
    THEN [kind |-> "xlsx", status |-> 200, attachment |-> TRUE, rows |-> ExportRows(q)]
    ELSE [kind |-> "csv", status |-> 200, attachment |-> TRUE, rows |-> ExportRows(q)]

(***************************************************************************)
(* Hospital portal: request handlers                                       *)
(***************************************************************************)
HospitalDb == <<patients, pseq, appointments, aseq>>

HRedirect(to) == [kind |-> "redirect", status |-> 302, target |-> to]
HError(code) == [kind |-> "error", status |-> code]
HForm == [kind |-> "form", status |-> 200]
HJson == [kind |-> "json", status |-> 200]

\* /admin/ login and logout: the only place a session is authenticated
admin_login(r) ==
    /\ r.route = "admin_login"
    /\ hreq' = r
    /\ IF r.username = admin /\ r.password = AdminPassword
       THEN hauth' = TRUE /\ hresp' = HRedirect("/admin/")
       ELSE hauth' = hauth /\ hresp' = HForm
    /\ UNCHANGED HospitalDb
    /\ UNCHANGED notHospital

admin_logout(r) ==
    /\ r.route = "admin_logout"
    /\ hreq' = r
    /\ hauth' = FALSE
    /\ hresp' = HRedirect("/admin/login/")
    /\ UNCHANGED HospitalDb
    /\ UNCHANGED notHospital

\* patients/
patients_list(r) ==
    /\ r.route = "patients_list"
    /\ hreq' = r
    /\ hresp' = ListResponse(r.q, r.page, r.page_size)
    /\ UNCHANGED <<HospitalDb, hauth>>
    /\ UNCHANGED notHospital

\* PatientForm.is_valid(): every field required, age an integer
PatientFormValid(f) ==
    /\ strip(f.first_name) # <<>> /\ Len(strip(f.first_name)) <= 100
    /\ strip(f.last_name) # <<>> /\ Len(strip(f.last_name)) <= 100
    /\ ParseInt(f.age).ok
    /\ strip(f.condition) # <<>> /\ Len(strip(f.condition)) <= 200

\* patients/add/
patient_add(r) ==
    /\ r.route = "patient_add"
    /\ hreq' = r
    /\ IF r.method = "POST" /\ ~r.csrf
       THEN hresp' = HError(403) /\ UNCHANGED <<patients, pseq>>
       ELSE IF r.method = "POST" /\ PatientFormValid(r.form)
       THEN /\ pseq < MaxPid
            /\ pseq' = pseq + 1
            /\ patients' = patients \cup
                   {[id |-> pseq + 1, first_name |-> strip(r.form.first_name),
                     last_name |-> strip(r.form.last_name), age |-> ParseInt(r.form.age).val,
                     condition |-> strip(r.form.condition)]}
            /\ hresp' = HRedirect("/patients/")
       ELSE hresp' = HForm /\ UNCHANGED <<patients, pseq>>
    /\ UNCHANGED <<appointments, aseq, hauth>>
    /\ UNCHANGED notHospital

\* patients/<int:pk>/delete/
patient_delete(r) ==
    /\ r.route = "patient_delete"
    /\ hreq' = r
    /\ IF r.method = "POST" /\ ~r.csrf
       THEN hresp' = HError(403) /\ UNCHANGED <<patients, appointments>>
       ELSE IF {pt \in patients : pt.id = r.pk} = {}
       THEN hresp' = HError(404) /\ UNCHANGED <<patients, appointments>>
       ELSE IF r.method = "POST"
       THEN /\ patients' = {pt \in patients : pt.id # r.pk}
            /\ appointments' = {a \in appointments : a.patient # r.pk}
            /\ hresp' = HRedirect("/patients/")
       ELSE hresp' = HRedirect("/patients/") /\ UNCHANGED <<patients, appointments>>
    /\ UNCHANGED <<pseq, aseq, hauth>>
    /\ UNCHANGED notHospital

AllowedFields == {"first_name", "last_name", "age", "condition"}

\* a JSON null among the payload's values (Python None); every other value of
\* the payload is a text
JsonNull == <<"null">>

\* decimal digits of the largest value an SQLite INTEGER column holds (2^63 - 1)
SqliteIntDigits == 19

RECURSIVE Significant(_)
Significant(digits) ==
    IF digits # <<>> /\ Head(digits) = "0" THEN Significant(Tail(digits)) ELSE digits

\* int(v) gives a Python integer of any size; one of more digits than an SQLite
\* INTEGER has cannot be bound to the UPDATE statement (OverflowError)
TooBig(v) ==
    LET t == strip(v)
        digits == IF t # <<>> /\ Head(t) \in {"-", "+"} THEN Tail(t) ELSE t
    IN AllDigits(digits) /\ Len(Significant(digits)) > SqliteIntDigits

\* the loop over data.items(): the patient after the setattr calls, the tag
\* "bad" when an age is no integer (the row is then the object as the loop
\* left it), the tag "big" when the age set is too large for the column
RECURSIVE ApplyUpdate(_, _, _)
ApplyUpdate(pt, items, big) ==
    IF items = <<>> THEN [bad |-> FALSE, big |-> big, row |-> pt]
    ELSE LET k == Head(items)[1]
             v == Head(items)[2]
         IN IF k \notin AllowedFields THEN ApplyUpdate(pt, Tail(items), big)
            ELSE IF k = "age"
            THEN IF v = <<>> THEN ApplyUpdate([pt EXCEPT !.age = 0], Tail(items), FALSE)
                 ELSE IF v = JsonNull THEN [bad |-> TRUE, big |-> big, row |-> pt]
                 ELSE IF TooBig(v) THEN ApplyUpdate(pt, Tail(items), TRUE)
                 ELSE IF ParseInt(v).ok
                 THEN ApplyUpdate([pt EXCEPT !.age = ParseInt(v).val], Tail(items), FALSE)
                 ELSE [bad |-> TRUE, big |-> big, row |-> pt]
            ELSE ApplyUpdate([pt EXCEPT ![k] = v], Tail(items), big)

\* p.save() raises: a NULL for a NOT NULL column (IntegrityError) or an
\* integer SQLite cannot hold (OverflowError)
SaveRaises(done) ==
    \/ done.big
    \/ \E k \in {"first_name", "last_name", "condition"} : done.row[k] = JsonNull

Stored_partial(pt, done) == IF done.big THEN pt ELSE done.row

\* the row of the patient in the table when the request ends: p.save() is the
\* only statement that writes, and it is reached only after the whole loop
Stored(pt, done) == IF done.bad \/ SaveRaises(done) THEN pt ELSE done.row

\* patients/ajax/update/ (csrf_exempt)
patients_ajax_update(r) ==
    /\ r.route = "patients_ajax_update"
    /\ hreq' = r
    /\ IF r.method # "POST"
       THEN hresp' = HError(405) /\ UNCHANGED patients
       ELSE IF ~r.well_formed \/ ~ParseInt(r.id).ok
               \/ {pt \in patients : pt.id = ParseInt(r.id).val} = {}
       THEN hresp' = HError(500) /\ UNCHANGED patients
       ELSE LET pt == CHOOSE x \in patients : x.id = ParseInt(r.id).val
                done == ApplyUpdate(pt, r.data, FALSE)
            IN /\ patients' = (patients \ {pt}) \cup {Stored(pt, done)}
               /\ hresp' = IF done.bad THEN HError(400)
                           ELSE IF SaveRaises(done) THEN HError(500)
                           ELSE HJson
    /\ UNCHANGED <<pseq, appointments, aseq, hauth>>
    /\ UNCHANGED notHospital

\* strptime(date_s, "%Y-%m-%d") and strptime(time_s, "%H:%M") accept the text
DateOk(t) == t \in {"2024-01-07", "2024-01-06"}
TimeOk(t) == t \in {"09:30"}

\* patients/ajax/add_appointment/ (csrf_exempt)
patients_ajax_add_appointment(r) ==
    /\ r.route = "patients_ajax_add_appointment"
    /\ hreq' = r
    /\ IF r.method # "POST"
       THEN hresp' = HError(405) /\ UNCHANGED <<appointments, aseq>>
       ELSE IF ~r.well_formed \/ ~ParseInt(r.patient_id).ok \/ ~ParseInt(r.doctor_id).ok
       THEN hresp' = HError(500) /\ UNCHANGED <<appointments, aseq>>
       ELSE IF ParseInt(r.patient_id).val = 0 \/ ParseInt(r.doctor_id).val = 0
               \/ r.date = "" \/ r.time = ""
       THEN hresp' = HError(400) /\ UNCHANGED <<appointments, aseq>>
       ELSE IF \/ {pt \in patients : pt.id = ParseInt(r.patient_id).val} = {}
               \/ {d \in Doctors : d.id = ParseInt(r.doctor_id).val} = {}
               \/ ~DateOk(r.date) \/ ~TimeOk(r.time)
       THEN hresp' = HError(500) /\ UNCHANGED <<appointments, aseq>>
       ELSE /\ aseq < MaxAid
            /\ aseq' = aseq + 1
            /\ appointments' = appointments \cup
                   {[id |-> aseq + 1, doctor |-> ParseInt(r.doctor_id).val,
                     patient |-> ParseInt(r.patient_id).val, date |-> r.date, time |-> r.time]}
            /\ hresp' = HJson
    /\ UNCHANGED <<patients, pseq, hauth>>
    /\ UNCHANGED notHospital

\* patients/export/
export_patients(r) ==
    /\ r.route = "patients_export"
    /\ hreq' = r
    /\ hresp' = ExportResponse(r.format, r.q, r.workbook)
    /\ UNCHANGED <<HospitalDb, hauth>>
    /\ UNCHANGED notHospital

(***************************************************************************)
(* School portal: the templates and render(name, **context)                *)
(* A template is a sequence of pieces: literal text, an expression         *)
(* {{ v }}, or a tag.  Rendered text is a sequence of pieces too, so a      *)
(* value that reads like template code stays recognisable in the output.   *)
(***************************************************************************)
NL == "\n"
BlockTag == "{% block content %}"
EndTag == "{% endblock %}"
ExtendsTag == "{% extends 'base' %}"
NavTag == "{% if current_user.is_authenticated %}"
FlashTag == "{% with messages = get_flashed_messages() %}"
Slot == "{{ child_content|safe }}"

\* the variable an expression piece prints, "" when the piece is no expression
VarOf(piece) ==
    CASE piece = "{{ form }}" -> "form"
      [] piece = "{{ total_students }}" -> "total_students"
      [] piece = "{{ present_count }}" -> "present_count"
      [] piece = "{{ today }}" -> "today"
      [] piece = "{{ students }}" -> "students"
      [] piece = "{{ q }}" -> "q"
      [] piece = "{{ selected_date }}" -> "selected_date"
      [] piece = "{{ existing }}" -> "existing"
      [] piece = "{{ grades }}" -> "grades"
      [] piece = "{{ s }}" -> "s"
      [] piece = "{{ attendances }}" -> "attendances"
      [] piece = "{{ summary }}" -> "summary"
      [] piece = Slot -> "child_content"
      [] OTHER -> ""

\* values printed as they are: |safe, and the Markup a form field renders to
Unescaped == {"child_content", "form"}

base_tpl == <<NL, "<html>", NavTag, FlashTag, Slot, "<footer>", NL>>
login_tpl == <<NL, BlockTag, "<h2>Login</h2>", "{{ form }}", EndTag, NL>>
index_tpl ==
    <<NL, BlockTag, "<h2>Dashboard</h2>", "{{ total_students }}", "{{ today }}",
      "{{ present_count }}", EndTag, NL>>
students_tpl == <<NL, BlockTag, "<h2>Students</h2>", "{{ q }}", "{{ students }}", EndTag, NL>>
enroll_tpl == <<NL, BlockTag, "<h2>Enroll Student</h2>", "{{ form }}", EndTag, NL>>
attendance_tpl ==
    <<NL, BlockTag, "<h2>Attendance</h2>", "{{ selected_date }}", "{{ students }}",
      "{{ existing }}", EndTag, NL>>
grades_tpl == <<NL, BlockTag, "<h3>Add Grade</h3>", "{{ form }}", "{{ grades }}", EndTag, NL>>
view_student_tpl ==
    <<NL, BlockTag, "<h2>Student</h2>", "{{ s }}", "{{ attendances }}", "{{ grades }}",
      EndTag, NL>>
report_tpl == <<NL, BlockTag, "<h2>Attendance Report</h2>", "{{ summary }}", EndTag, NL>>

TemplateNames ==
    {"base", "login.html", "index.html", "students.html", "enroll.html",
     "attendance.html", "grades.html", "view_student.html", "report.html"}

template_env ==
    [n \in TemplateNames |->
        CASE n = "base" -> base_tpl
          [] n = "login.html" -> login_tpl
          [] n = "index.html" -> index_tpl
          [] n = "students.html" -> students_tpl
          [] n = "enroll.html" -> enroll_tpl
          [] n = "attendance.html" -> attendance_tpl
          [] n = "grades.html" -> grades_tpl
          [] n = "view_student.html" -> view_student_tpl
          [] OTHER -> report_tpl]

\* the keyword arguments each view passes with its template
ContextKeys(n) ==
    CASE n = "login.html" -> {"form"}
      [] n = "index.html" -> {"total_students", "present_count", "today"}
      [] n = "students.html" -> {"students", "q"}
      [] n = "enroll.html" -> {"form"}
      [] n = "attendance.html" -> {"students", "existing", "selected_date"}
      [] n = "grades.html" -> {"form", "grades"}
      [] n = "view_student.html" -> {"s", "attendances", "grades"}
      [] n = "report.html" -> {"summary"}
      [] OTHER -> {}

\* markupsafe.escape of one piece of a value
Escape(piece) ==
    CASE piece = "<b>" -> "&lt;b&gt;"
      [] OTHER -> piece

IsSpace(piece) == piece = NL

\* re.sub(r'^\s*\{%\s*extends ...%}\s*', '', child, count=1): the first extends
\* tag that opens a line goes, with the blank text around it
RECURSIVE DropSpace(_)
DropSpace(t) == IF t # <<>> /\ IsSpace(Head(t)) THEN DropSpace(Tail(t)) ELSE t

RECURSIVE StripExtends(_, _)
StripExtends(t, at_line_start) ==
    IF t = <<>> THEN <<>>
    ELSE IF at_line_start /\ DropSpace(t) # <<>> /\ Head(DropSpace(t)) = ExtendsTag
    THEN DropSpace(Tail(DropSpace(t)))
    ELSE <<Head(t)>> \o StripExtends(Tail(t), IsSpace(Head(t)))

\* positions of a piece in a template
Positions(t, piece) == {i \in 1..Len(t) : t[i] = piece}

SetMin(S) == CHOOSE m \in S : \A x \in S : m <= x

\* a search that takes the whole child whether or not it has a content block
ContentBlock_whole(child) == child

\* re.search(r'\{%\s*block\s+content\s*%}([\s\S]*?)\{%\s*endblock\s*%}', child):
\* group 1 of the first match, the whole child when nothing matches
ContentBlock(child) ==
    LET opens == {i \in Positions(child, BlockTag) :
                     \E j \in Positions(child, EndTag) : j > i}
    IN IF opens = {} THEN child
       ELSE LET i == SetMin(opens)
                j == SetMin({k \in Positions(child, EndTag) : k > i})
            IN SubSeq(child, i + 1, j - 1)

\* render_template_string(source, **context): what each piece turns into
RenderPiece(piece, ctx, env) ==
    IF piece = NavTag THEN (IF env.auth THEN <<"<a>Logout</a>">> ELSE <<"<a>Login</a>">>)
    ELSE IF piece = FlashTag THEN env.flashed
    ELSE IF piece \in {BlockTag, EndTag} THEN <<>>
    ELSE IF VarOf(piece) = "" THEN <<piece>>
    ELSE IF VarOf(piece) \notin DOMAIN ctx THEN <<>>
    ELSE IF VarOf(piece) \in Unescaped THEN ctx[VarOf(piece)]
    ELSE [i \in 1..Len(ctx[VarOf(piece)]) |-> Escape(ctx[VarOf(piece)][i])]

RECURSIVE RenderString(_, _, _)
RenderString(source, ctx, env) ==
    IF source = <<>> THEN <<>>
    ELSE RenderPiece(Head(source), ctx, env) \o RenderString(Tail(source), ctx, env)

\* get_flashed_messages() empties the session's list when a template calls it
AfterRender(source, env) ==
    IF FlashTag \in Range(source) THEN [env EXCEPT !.flashed = <<>>] ELSE env

With(ctx, key, value) == [k \in DOMAIN ctx \cup {key} |-> IF k = key THEN value ELSE ctx[k]]

\* a base render that pastes child_html into the layout's source and renders that
RenderBase_pasted(child_html, ctx, env) ==
    LET at == SetMin(Positions(base_tpl, Slot))
    IN RenderString(SubSeq(base_tpl, 1, at - 1) \o child_html
                    \o SubSeq(base_tpl, at + 1, Len(base_tpl)), ctx, env)

\* render_template_string(full, child_content=child_html, **context)
RenderBase(child_html, ctx, env) ==
    RenderString(template_env["base"], With(ctx, "child_content", child_html), env)

\* render(): up to child_html = render_template_string(inner, **context)
render_child ==
    /\ r_pc = "call"
    /\ IF r_name \notin DOMAIN template_env
       THEN r_pc' = "raised" /\ UNCHANGED <<r_child, r_env>>
       ELSE LET inner == ContentBlock(StripExtends(template_env[r_name], TRUE))
            IN /\ r_child' = RenderString(inner, r_ctx, r_env)
               /\ r_env' = AfterRender(inner, r_env)
               /\ r_pc' = "child"
    /\ UNCHANGED <<r_name, r_ctx, r_out>>
    /\ UNCHANGED notRender

\* render(): the base layout around child_html
render_base ==
    /\ r_pc = "child"
    /\ r_out' = RenderBase(r_child, r_ctx, r_env)
    /\ r_env' = AfterRender(template_env["base"], r_env)
    /\ r_pc' = "done"
    /\ UNCHANGED <<r_name, r_ctx, r_child>>
    /\ UNCHANGED notRender

\* values a view hands to a template: plain text, markup, text that reads like
\* a template expression
ContextValues == {<<"Ann">>, <<"<b>">>, <<"{{ q }}">>}

\* no call of render() under way
NoRender ==
    /\ r_name = ""
    /\ r_ctx = <<>>
    /\ r_env = [auth |-> FALSE, flashed |-> <<>>]
    /\ r_pc = "idle"
    /\ r_child = <<>>
    /\ r_out = <<>>

\* any call a view makes, and one with a name that is not registered
InitRender ==
    /\ r_name \in TemplateNames \cup {"missing.html"}
    /\ r_ctx \in [ContextKeys(r_name) -> ContextValues]
    /\ \E a \in BOOLEAN, f \in {<<>>, <<MsgEnrolled>>} : r_env = [auth |-> a, flashed |-> f]
    /\ r_pc = "call"
    /\ r_child = <<>>
    /\ r_out = <<>>

(***************************************************************************)
(* Hospital portal: django.template.context and the patched __copy__       *)
(* A layer of a context is a dict: here a sequence of <<key, value>> pairs *)
(* in insertion order, each key once.  Layers are objects of c_heap, so    *)
(* that two contexts can hold the same layer or copies of it.              *)
(***************************************************************************)
MaxDepth == 2     \* layers a context is grown to by push
MaxIdx == 3       \* the largest _processors_index assigned

LayerKeys(layer) == {layer[i][1] : i \in 1..Len(layer)}

\* d[k]
LayerGet(layer, k) == layer[CHOOSE i \in 1..Len(layer) : layer[i][1] = k][2]

\* d[k] = v: a key already there keeps its place
LayerPut(layer, k, v) ==
    IF k \in LayerKeys(layer)
    THEN [i \in 1..Len(layer) |-> IF layer[i][1] = k THEN <<k, v>> ELSE layer[i]]
    ELSE Append(layer, <<k, v>>)

\* del d[k]
LayerDel(layer, k) == SelectSeq(layer, LAMBDA kv : kv[1] # k)

\* BaseContext._reset_dicts: the first layer of every new context
Builtins == << <<"True", "true">>, <<"False", "false">>, <<"None", "none">> >>

\* values of the _processors_index attribute: not set, an integer, a text, None
NoIndex == [kind |-> "missing", val |-> 0, text |-> <<>>]
IntIndex(n) == [kind |-> "int", val |-> n, text |-> <<>>]
TextIndex(t) == [kind |-> "text", val |-> 0, text |-> t]
NoneIndex == [kind |-> "none", val |-> 0, text |-> <<>>]

\* Context(): one layer, the builtins, at object id `at`; no _processors_index
NewContext(at) ==
    [cls |-> "Context", dicts |-> <<at>>, idx |-> NoIndex, render_context |-> "empty"]

\* RequestContext(request): the builtins and two empty layers, the first of them
\* kept for the context processors' output
NewRequestContext(at) ==
    [cls |-> "RequestContext", dicts |-> <<at, at + 1, at + 2>>, idx |-> IntIndex(1),
     render_context |-> "empty"]

NoContextObject == [cls |-> "none", dicts |-> <<>>, idx |-> NoIndex, render_context |-> "empty"]

\* context[k]: the topmost layer that has the key decides; KeyError without one
KeyError == "KeyError"
RECURSIVE Lookup(_, _, _)
Lookup(heap, dicts, k) ==
    IF dicts = <<>> THEN KeyError
    ELSE IF k \in LayerKeys(heap[dicts[Len(dicts)]])
    THEN LayerGet(heap[dicts[Len(dicts)]], k)
    ELSE Lookup(heap, SubSeq(dicts, 1, Len(dicts) - 1), k)

VisibleKeys(heap, dicts) == UNION {LayerKeys(heap[dicts[i]]) : i \in 1..Len(dicts)}

\* context[k] = v: BaseContext.__setitem__ writes the top layer
SetItem(heap, dicts, k, v) ==
    [heap EXCEPT ![dicts[Len(dicts)]] = LayerPut(@, k, v)]

\* int(idx) of an attribute value: ok is FALSE when int() raises
IntOf(idx) ==
    CASE idx.kind = "missing" -> [ok |-> TRUE, val |-> 0]
      [] idx.kind = "int" -> [ok |-> TRUE, val |-> idx.val]
      [] idx.kind = "text" -> ParseInt(idx.text)
      [] OTHER -> [ok |-> FALSE, val |-> 0]

\* the index converted with nothing caught and nothing clamped
ProcessorsIndex_raw(idx) == [raised |-> ~IntOf(idx).ok, val |-> IntOf(idx).val]

\* idx = getattr(self, "_processors_index", 0); int(idx), 0 when that raises;
\* 0 when negative.  Nothing escapes the try.
ProcessorsIndex(idx) ==
    LET n == IF IntOf(idx).ok THEN IntOf(idx).val ELSE 0
    IN [raised |-> FALSE, val |-> IF n < 0 THEN 0 ELSE n]

\* duplicate.dicts = self.dicts[:], the layers themselves
CopyLayers_shared(heap, dicts) == [heap |-> heap, dicts |-> dicts]

\* duplicate.dicts = [d.copy() for d in dicts]: new objects with the same pairs
CopyLayers(heap, dicts) ==
    [heap |-> heap \o [i \in 1..Len(dicts) |-> heap[dicts[i]]],
     dicts |-> [i \in 1..Len(dicts) |-> Len(heap) + i]]

\* while len(duplicate.dicts) <= idx: duplicate.dicts.append({})
RECURSIVE PadLayers(_, _, _)
PadLayers(heap, dicts, idx) ==
    IF Len(dicts) > idx THEN [heap |-> heap, dicts |-> dicts]
    ELSE PadLayers(Append(heap, <<>>), Append(dicts, Len(heap) + 1), idx)

\* dict(self): Context iterates its layers from the top and has no keys(), so
\* each layer is read as one (key, value) pair: it must hold exactly two keys,
\* and the first is mapped to the second; ValueError otherwise
RECURSIVE PairsOf(_, _)
PairsOf(heap, dicts) ==
    IF dicts = <<>> THEN <<>>
    ELSE LET top == heap[dicts[Len(dicts)]]
         IN LayerPut(PairsOf(heap, SubSeq(dicts, 1, Len(dicts) - 1)), top[1][1], top[2][1])

RECURSIVE Reversed(_)
Reversed(seq) == IF seq = <<>> THEN <<>> ELSE Append(Reversed(Tail(seq)), Head(seq))

DictOfContext(heap, dicts) ==
    IF \A i \in 1..Len(dicts) : Len(heap[dicts[i]]) = 2
    THEN [ok |-> TRUE, value |-> PairsOf(heap, Reversed(dicts))]
    ELSE [ok |-> FALSE, value |-> <<>>]

\* for d in self.dicts: for k, v in d.items(): duplicate[k] = v
RECURSIVE SetAll(_, _, _)
SetAll(heap, dupdicts, pairs) ==
    IF pairs = <<>> THEN heap
    ELSE SetAll(SetItem(heap, dupdicts, Head(pairs)[1], Head(pairs)[2]), dupdicts, Tail(pairs))

RECURSIVE AllPairs(_, _)
AllPairs(heap, dicts) ==
    IF dicts = <<>> THEN <<>> ELSE heap[Head(dicts)] \o AllPairs(heap, Tail(dicts))

\* _context_copy(self): the heap afterwards and the duplicate.  The copy of
\* render_context is taken when RenderContext can be copied and is a new
\* RenderContext otherwise: `kept` says which.
context_copy_of(heap, self, kept) ==
    LET copied == CopyLayers(heap, self.dicts)
        idx == ProcessorsIndex(self.idx).val
        padded == PadLayers(copied.heap, copied.dicts, idx)
        whole == DictOfContext(heap, self.dicts)
        final == IF whole.ok
                 THEN [heap |-> Append(padded.heap, whole.value),
                       dicts |-> Append(padded.dicts, Len(padded.heap) + 1)]
                 ELSE [heap |-> SetAll(padded.heap, padded.dicts, AllPairs(heap, self.dicts)),
                       dicts |-> padded.dicts]
    IN [raised |-> ProcessorsIndex(self.idx).raised,
        heap |-> final.heap,
        dup |-> [cls |-> self.cls, dicts |-> final.dicts, idx |-> IntIndex(idx),
                 render_context |-> IF kept THEN self.render_context ELSE "empty"]]

\* values and layers a view puts into a context
ContextTexts == {"1", "2"}
PushedLayers == {<<>>, << <<"a", "1">> >>, << <<"a", "2">>, <<"b", "1">> >>}
IndexValues ==
    {NoIndex, NoneIndex, IntIndex(0 - 1), IntIndex(0), IntIndex(1), IntIndex(MaxIdx),
     TextIndex(<<"x">>), TextIndex(<<"2">>)}

\* the context being built: context[k] = v
ctx_setitem(k, v) ==
    /\ c_pc = "built"
    /\ c_heap' = SetItem(c_heap, c_self.dicts, k, v)
    /\ UNCHANGED <<c_self, c_dup, c_pc>>
    /\ UNCHANGED notContext

\* del context[k]: the top layer's key, KeyError when it has none
ctx_delitem(k) ==
    /\ c_pc = "built"
    /\ LET top == c_self.dicts[Len(c_self.dicts)]
       IN c_heap' = IF k \in LayerKeys(c_heap[top])
                    THEN [c_heap EXCEPT ![top] = LayerDel(@, k)]
                    ELSE c_heap
    /\ UNCHANGED <<c_self, c_dup, c_pc>>
    /\ UNCHANGED notContext

\* context.update(layer) / context.push(**layer)
ctx_push(layer) ==
    /\ c_pc = "built"
    /\ Len(c_self.dicts) < MaxDepth
    /\ c_heap' = Append(c_heap, layer)
    /\ c_self' = [c_self EXCEPT !.dicts = Append(@, Len(c_heap) + 1)]
    /\ UNCHANGED <<c_dup, c_pc>>
    /\ UNCHANGED notContext

\* context.pop(): ContextPopException on the last layer
ctx_pop ==
    /\ c_pc = "built"
    /\ IF Len(c_self.dicts) = 1 THEN UNCHANGED <<c_heap, c_self>>
       ELSE /\ c_heap' = SubSeq(c_heap, 1, Len(c_heap) - 1)
            /\ c_self' = [c_self EXCEPT !.dicts = SubSeq(@, 1, Len(@) - 1)]
    /\ UNCHANGED <<c_dup, c_pc>>
    /\ UNCHANGED notContext

\* context._processors_index = value, or the attribute deleted
ctx_set_index(value) ==
    /\ c_pc = "built"
    /\ c_self' = [c_self EXCEPT !.idx = value]
    /\ UNCHANGED <<c_heap, c_dup, c_pc>>
    /\ UNCHANGED notContext

\* the template renders into the context's render_context
ctx_render ==
    /\ c_pc = "built"
    /\ c_self' = [c_self EXCEPT !.render_context = "used"]
    /\ UNCHANGED <<c_heap, c_dup, c_pc>>
    /\ UNCHANGED notContext

\* copy(context)
context_copy ==
    /\ c_pc = "built"
    /\ \E kept \in BOOLEAN :
          LET out == context_copy_of(c_heap, c_self, kept)
          IN IF out.raised
             THEN c_pc' = "raised" /\ UNCHANGED <<c_heap, c_dup>>
             ELSE c_pc' = "copied" /\ c_heap' = out.heap /\ c_dup' = out.dup
    /\ UNCHANGED c_self
    /\ UNCHANGED notContext

\* after the copy: duplicate[k] = v
dup_setitem(k, v) ==
    /\ c_pc = "copied"
    /\ c_heap' = SetItem(c_heap, c_dup.dicts, k, v)
    /\ UNCHANGED <<c_self, c_dup, c_pc>>
    /\ UNCHANGED notContext

\* after the copy: duplicate.push(**layer)
dup_push(layer) ==
    /\ c_pc = "copied"
    /\ Len(c_dup.dicts) < MaxDepth
    /\ c_heap' = Append(c_heap, layer)
    /\ c_dup' = [c_dup EXCEPT !.dicts = Append(@, Len(c_heap) + 1)]
    /\ UNCHANGED <<c_self, c_pc>>
    /\ UNCHANGED notContext

\* after the copy: original[k] = v
self_setitem(k, v) ==
    /\ c_pc = "copied"
    /\ c_heap' = SetItem(c_heap, c_self.dicts, k, v)
    /\ UNCHANGED <<c_self, c_dup, c_pc>>
    /\ UNCHANGED notContext

\* after the copy: original.push(**layer)
self_push(layer) ==
    /\ c_pc = "copied"
    /\ Len(c_self.dicts) < MaxDepth
    /\ c_heap' = Append(c_heap, layer)
    /\ c_self' = [c_self EXCEPT !.dicts = Append(@, Len(c_heap) + 1)]
    /\ UNCHANGED <<c_dup, c_pc>>
    /\ UNCHANGED notContext

\* no context under construction
NoContext ==
    /\ c_heap = <<>>
    /\ c_self = NoContextObject
    /\ c_dup = NoContextObject
    /\ c_pc = "idle"

\* a context as a view or the template engine makes it
InitContext ==
    /\ \/ c_heap = <<Builtins>> /\ c_self = NewContext(1)
       \/ c_heap = <<Builtins, <<>>, <<>>>> /\ c_self = NewRequestContext(1)
    /\ c_dup = NoContextObject
    /\ c_pc = "built"

(***************************************************************************)
(* Hospital portal: ensure_db_setup and create_missing_tables              *)
(***************************************************************************)
\* the db_table of Doctor, Patient and Appointment
DoctorTable == "hospital_app_doctor"
PatientTable == "hospital_app_patient"
AppointmentTable == "hospital_app_appointment"
needed == {DoctorTable, PatientTable, AppointmentTable}

\* connection.introspection.table_names(), the needed ones
table_names == {t \in needed : s_tables[t] # "absent"}

\* CREATE TABLE for each table of `creating`
CreateTables(tables, creating) ==
    [t \in needed |-> IF t \in creating THEN "empty" ELSE tables[t]]

\* a create_missing_tables that creates every model it is given
TablesToCreate_all(models_list, existing) == models_list

\* create_missing_tables: the models whose table is not among the existing ones
TablesToCreate(models_list, existing) == models_list \ existing

\* call_command("migrate", run_syncdb=True), whatever it raises caught and
\* printed: it may have created any of the absent tables either way
setup_migrate ==
    /\ s_pc = "start"
    /\ \E made \in SUBSET (needed \ table_names), raised \in BOOLEAN :
          /\ s_tables' = CreateTables(s_tables, made)
          /\ s_migrate' = IF raised THEN "raised" ELSE "done"
    /\ s_pc' = "migrated"
    /\ UNCHANGED <<s_missing, s_created>>
    /\ UNCHANGED notSetup

\* missing_models, from the tables found now
setup_inspect ==
    /\ s_pc = "migrated"
    /\ s_missing' = needed \ table_names
    /\ s_pc' = IF needed \ table_names = {} THEN "returned" ELSE "inspected"
    /\ UNCHANGED <<s_tables, s_migrate, s_created>>
    /\ UNCHANGED notSetup

\* created = create_missing_tables(missing_models), and what follows from it.
\* The schema editor's block is one transaction: when a statement fails nothing
\* is created and the database error leaves ensure_db_setup.
setup_create ==
    /\ s_pc = "inspected"
    /\ \E fails \in BOOLEAN :
          LET created == TablesToCreate(s_missing, table_names)
          IN IF fails /\ created # {}
             THEN /\ s_pc' = "database_error"
                  /\ UNCHANGED <<s_tables, s_created>>
             ELSE /\ s_tables' = CreateTables(s_tables, created)
                  /\ s_created' = created
                  /\ s_pc' = IF created = {} THEN "runtime_error" ELSE "returned"
    /\ UNCHANGED <<s_missing, s_migrate>>
    /\ UNCHANGED notSetup

\* another process started from the same file creates a table meanwhile
other_process_creates(t) ==
    /\ s_pc \in {"migrated", "inspected"}
    /\ s_tables[t] = "absent"
    /\ s_tables' = [s_tables EXCEPT ![t] = "empty"]
    /\ UNCHANGED <<s_pc, s_migrate, s_missing, s_created>>
    /\ UNCHANGED notSetup

\* the running portal stores a row in a table
table_written(t) ==
    /\ s_pc = "returned"
    /\ s_tables[t] # "absent"
    /\ s_tables' = [s_tables EXCEPT ![t] = "rows"]
    /\ UNCHANGED <<s_pc, s_migrate, s_missing, s_created>>
    /\ UNCHANGED notSetup

\* the program is started again on the same database file
program_start ==
    /\ s_pc \in {"returned", "runtime_error", "database_error"}
    /\ s_pc' = "start"
    /\ s_migrate' = "not run"
    /\ s_missing' = {}
    /\ s_created' = {}
    /\ UNCHANGED s_tables
    /\ UNCHANGED notSetup

\* ensure_db_setup not running
NoSetup ==
    /\ s_tables = [t \in needed |-> "empty"]
    /\ s_pc = "idle"
    /\ s_migrate = "not run"
    /\ s_missing = {}
    /\ s_created = {}

\* the first start, on a new database file
InitSetup ==
    /\ s_tables = [t \in needed |-> "absent"]
    /\ s_pc = "start"
    /\ s_migrate = "not run"
    /\ s_missing = {}
    /\ s_created = {}

(***************************************************************************)
(* Hospital portal: seed_demo                                              *)
(***************************************************************************)
\* the statements of seed_demo, in order
SeedStatements == <<"admin", "doc_user", "doctor", "alice", "bob">>

\* the next AUTOINCREMENT id of a table that was never deleted from
NextRowId(rows) == SeqMax({row.id : row \in rows}) + 1

\* a plain create(): no lookup before the INSERT
Found_none(rows, matching) == [n |-> 0, rows |-> {}]

\* Model.objects.get(**lookup) inside get_or_create: how many rows match
Found(rows, matching) == [n |-> Cardinality(matching), rows |-> matching]

\* User.objects.filter(username="admin").exists(), create_superuser
seed_admin ==
    /\ seed_pc = "admin"
    /\ h_users' = IF Found(h_users, {u \in h_users : u.username = admin}).n > 0 THEN h_users
                  ELSE h_users \cup {[id |-> NextRowId(h_users), username |-> admin,
                                      password |-> AdminPassword, superuser |-> TRUE]}
    /\ seed_pc' = "doc_user"
    /\ UNCHANGED <<h_doctors, patients, pseq>>
    /\ UNCHANGED notSeed

\* User.objects.get_or_create(username="dr_smith", defaults=...)
seed_doc_user ==
    /\ seed_pc = "doc_user"
    /\ LET found == Found(h_users, {u \in h_users : u.username = dr_smith})
       IN /\ h_users' = IF found.n = 0
                        THEN h_users \cup {[id |-> NextRowId(h_users), username |-> dr_smith,
                                            password |-> <<>>, superuser |-> FALSE]}
                        ELSE h_users
          /\ seed_pc' = IF found.n > 1 THEN "raised" ELSE "doctor"
    /\ UNCHANGED <<h_doctors, patients, pseq>>
    /\ UNCHANGED notSeed

\* Doctor.objects.get_or_create(user=doc_user, defaults={"specialty": "Cardiology"})
seed_doctor ==
    /\ seed_pc = "doctor"
    /\ LET doc_user == CHOOSE u \in h_users : u.username = dr_smith
           found == Found(h_doctors, {d \in h_doctors : d.user = doc_user.id})
       IN /\ h_doctors' = IF found.n = 0
                          THEN h_doctors \cup {[id |-> NextRowId(h_doctors),
                                                user |-> doc_user.id,
                                                specialty |-> "Cardiology"]}
                          ELSE h_doctors
          /\ seed_pc' = IF found.n > 1 THEN "raised" ELSE "alice"
    /\ UNCHANGED <<h_users, patients, pseq>>
    /\ UNCHANGED notSeed

\* Patient.objects.get_or_create(first_name=first, last_name=last, defaults=...)
seed_patient(at, then, first, last, age, condition) ==
    /\ seed_pc = at
    /\ LET found == Found(patients, {pt \in patients : pt.first_name = first
                                                       /\ pt.last_name = last})
       IN /\ IF found.n = 0
             THEN /\ pseq' = pseq + 1
                  /\ patients' = patients \cup
                         {[id |-> pseq + 1, first_name |-> first, last_name |-> last,
                           age |-> age, condition |-> condition]}
             ELSE UNCHANGED <<patients, pseq>>
          /\ seed_pc' = IF found.n > 1 THEN "raised" ELSE then
    /\ UNCHANGED <<h_users, h_doctors>>
    /\ UNCHANGED notSeed

seed_alice == seed_patient("alice", "bob", Alice, Brown, AliceAge, Checkup)
seed_bob == seed_patient("bob", "done", Bob, Green, BobAge, Diabetes)

\* the program is started again (or was stopped while it seeded): seed_demo()
\* runs at import
seed_again ==
    /\ seed_pc # "idle"
    /\ seed_pc' = "admin"
    /\ UNCHANGED <<h_users, h_doctors, patients, pseq>>
    /\ UNCHANGED notSeed

\* the admin site: a user's password is changed
admin_set_password(name, password) ==
    /\ seed_pc = "done"
    /\ h_users' = {IF u.username = name THEN [u EXCEPT !.password = password] ELSE u :
                      u \in h_users}
    /\ UNCHANGED <<h_doctors, seed_pc, patients, pseq>>
    /\ UNCHANGED notSeed

\* seed_demo has not run yet
NotSeeded ==
    /\ h_users = {}
    /\ h_doctors = {}
    /\ seed_pc = "idle"

\* the users and the doctor as seed_demo leaves them on a new database
Seeded ==
    /\ h_users = {[id |-> 1, username |-> admin, password |-> AdminPassword,
                   superuser |-> TRUE],
                  [id |-> 2, username |-> dr_smith, password |-> <<>>, superuser |-> FALSE]}
    /\ h_doctors = {[id |-> 1, user |-> 2, specialty |-> "Cardiology"]}
    /\ seed_pc = "idle"

(***************************************************************************)
(* School portal: the requests a client sends                              *)
(***************************************************************************)
bob == <<"b", "o", "b">>
RollA == <<"A">>
RollB == <<"B">>

Get(route) == [route |-> route, method |-> "GET"]

Usernames == {admin, bob, <<>>, Rep("x", UsernameMax + 1)}
Passwords == {admin, <<"x">>, <<>>}

LoginGet ==
    [route |-> "login", method |-> "GET", csrf |-> FALSE,
     form |-> [username |-> <<>>, password |-> <<>>]]

LoginPost(csrf, username, password) ==
    [route |-> "login", method |-> "POST", csrf |-> csrf,
     form |-> [username |-> username, password |-> password]]

\* every shape of login request: each username with each password
LoginReqs ==
    {LoginGet, LoginPost(FALSE, admin, admin)}
    \cup {LoginPost(TRUE, u, p) : u \in Usernames, p \in Passwords}

\* the login requests of a client that is after something else
FewLoginReqs == {LoginGet, LoginPost(TRUE, admin, admin), LoginPost(TRUE, admin, <<"x">>)}

EnrollGet ==
    [route |-> "enroll", method |-> "GET", csrf |-> FALSE,
     form |-> [roll_no |-> <<>>, name |-> <<>>, email |-> <<>>]]

EnrollPost(csrf, roll, name, email) ==
    [route |-> "enroll", method |-> "POST", csrf |-> csrf,
     form |-> [roll_no |-> roll, name |-> name, email |-> email]]

\* roll numbers as typed: plain, padded with blanks, blank, too long
RollTexts == {RollA, RollB, <<"A", " ">>, <<" ", "B">>, <<" ">>, Rep("A", RollMax + 1)}

EnrollReqs ==
    {EnrollGet, EnrollPost(FALSE, RollA, <<"n">>, <<>>),
     EnrollPost(TRUE, RollA, <<" ">>, <<>>),
     EnrollPost(TRUE, RollB, <<"n">>, <<"@">>),
     EnrollPost(TRUE, RollB, <<"n">>, <<"a", "@", "b">>)}
    \cup {EnrollPost(TRUE, roll, <<"n">>, <<>>) : roll \in RollTexts}

FewEnrollReqs ==
    {EnrollGet, EnrollPost(TRUE, RollA, <<"n">>, <<>>),
     EnrollPost(TRUE, <<"A", " ">>, <<"n">>, <<>>)}

\* ids a student can have when FewEnrollReqs are the only enrolments
FewStudentIds == {1}

\* the status_<id> fields of an attendance form: any subset of the students
StatusForms(ids, values) == UNION {[some -> values] : some \in SUBSET ids}

AttendanceReq(method, args_date, form_date, statuses) ==
    [route |-> "attendance", method |-> method, args_date |-> args_date,
     form_date |-> form_date, statuses |-> statuses]

FewAttendanceReqs ==
    {AttendanceReq("GET", d, "", <<>>) : d \in {"", "2024-01-07", "bad"}}
    \cup {AttendanceReq("POST", "", "", <<>>)}
    \cup {AttendanceReq("POST", "", "2024-01-07", f) : f \in StatusForms(FewStudentIds, {"Present"})}

GradeGet ==
    [route |-> "grades", method |-> "GET", csrf |-> FALSE,
     form |-> [student_id |-> 0, subject |-> <<>>, marks |-> 0]]

GradePost(csrf, student_id, marks) ==
    [route |-> "grades", method |-> "POST", csrf |-> csrf,
     form |-> [student_id |-> student_id, subject |-> <<"m">>, marks |-> marks]]

FewGradeReqs ==
    {GradeGet, GradePost(FALSE, 1, 50), GradePost(TRUE, 1, 50), GradePost(TRUE, 1, 0),
     GradePost(TRUE, 2, 50)}

InitAdminReq(method, password, json) ==
    [route |-> "init_admin", method |-> method, password |-> password, json |-> json]

InitAdminReqs ==
    {InitAdminReq("GET", <<>>, NoJson)}
    \cup {InitAdminReq("POST", p, NoJson) : p \in {<<>>, <<"x">>}}

\* /init-admin with a form and with every shape of JSON body
JsonInitAdminReqs ==
    InitAdminReqs
    \cup {InitAdminReq("POST", <<>>, j) : j \in {JsonObject(<<>>), JsonObject(<<"y">>), JsonArray}}

(***************************************************************************)
(* School portal: specifications                                           *)
(***************************************************************************)
\* the school portal at rest, as ensure_db_and_admin leaves it
SchoolAtRest ==
    /\ users = [u \in {1} |-> [username |-> admin, role |-> "admin",
                               password_hash |-> PwHash("s1", admin)]]
    /\ session = Anon
    /\ flashes = <<>>
    /\ students = {}
    /\ attendances = {}
    /\ grades = {}
    /\ debug = TRUE
    /\ running = TRUE
    /\ NoRace
    /\ req = Get("none")
    /\ resp = [kind |-> "none", status |-> 0, target |-> "", messages |-> <<>>,
               data |-> NoData]

\* ensure_db_and_admin has run: the tables exist and hold the default admin
InitSchool ==
    /\ users = [u \in {1} |-> [username |-> admin, role |-> "admin",
                               password_hash |-> PwHash("s1", admin)]]
    /\ session = Anon
    /\ flashes = <<>>
    /\ students = {}
    /\ attendances = {}
    /\ grades = {}
    /\ debug \in BOOLEAN
    /\ running = TRUE
    /\ NoRace
    /\ req = Get("none")
    /\ resp = [kind |-> "none", status |-> 0, target |-> "", messages |-> <<>>,
               data |-> NoData]
    /\ InitHospital
    /\ NoRender
    /\ NoContext
    /\ NoSetup
    /\ Seeded

\* every route of the portal, with every shape of login request
NextSchool ==
    \/ \E r \in LoginReqs : login(r)
    \/ logout(Get("logout"))
    \/ index(Get("index"))
    \/ \E q \in {<<>>, <<"a">>} : students_view([route |-> "students", method |-> "GET", q |-> q])
    \/ \E r \in FewEnrollReqs : enroll(r)
    \/ \E i \in {1, 2} :
          view_student([route |-> "view_student", method |-> "GET", student_id |-> i])
    \/ \E r \in FewAttendanceReqs : attendance(r)
    \/ \E r \in FewGradeReqs : grades_view(r)
    \/ export_students(Get("export_students"))
    \/ report(Get("report"))
    \/ \E r \in InitAdminReqs : init_admin(r)

SpecSchool == InitSchool /\ [][NextSchool]_vars

\* enrolment with every shape of roll number, by a client that logs in and out
NextEnroll ==
    \/ \E r \in FewLoginReqs : login(r)
    \/ logout(Get("logout"))
    \/ \E q \in {<<>>, <<"a">>} : students_view([route |-> "students", method |-> "GET", q |-> q])
    \/ \E r \in EnrollReqs : enroll(r)

SpecEnroll == InitSchool /\ [][NextEnroll]_vars

\* one call of render(), from any of the views
InitCall ==
    /\ users = [u \in {1} |-> [username |-> admin, role |-> "admin",
                               password_hash |-> PwHash("s1", admin)]]
    /\ session = Anon
    /\ flashes = <<>>
    /\ students = {}
    /\ attendances = {}
    /\ grades = {}
    /\ debug = TRUE
    /\ running = TRUE
    /\ NoRace
    /\ req = Get("none")
    /\ resp = [kind |-> "none", status |-> 0, target |-> "", messages |-> <<>>,
               data |-> NoData]
    /\ InitHospital
    /\ InitRender
    /\ NoContext
    /\ NoSetup
    /\ Seeded

NextRender ==
    \/ render_child
    \/ render_base

SpecRender == InitCall /\ [][NextRender]_vars

(***************************************************************************)
(* School portal: specification of program starts                          *)
(***************************************************************************)
\* a new database file and a program that was not started yet
InitProgram ==
    /\ users = <<>>
    /\ session = Anon
    /\ flashes = <<>>
    /\ students = {}
    /\ attendances = {}
    /\ grades = {}
    /\ debug = FALSE
    /\ running = FALSE
    /\ NoRace
    /\ req = Get("none")
    /\ resp = [kind |-> "none", status |-> 0, target |-> "", messages |-> <<>>,
               data |-> NoData]
    /\ InitHospital
    /\ NoRender
    /\ NoContext
    /\ NoSetup
    /\ Seeded

Logouts == {Get("logout")}

\* the program is started and stopped, and while it runs the admin logs in
\* and out and /init-admin is called
NextProgram ==
    \/ main
    \/ served
    \/ stopped
    \/ \E r \in FewLoginReqs : running /\ login(r)
    \/ \E r \in Logouts : running /\ logout(r)
    \/ \E r \in JsonInitAdminReqs : running /\ init_admin(r)

SpecProgram == InitProgram /\ [][NextProgram]_vars

(***************************************************************************)
(* School portal: specification of attendance keeping                      *)
(***************************************************************************)
AttendanceDates == {"2024-01-06", "2024-01-07"}
AttendanceStudentIds == {1, 2}

Statuses == {"Present", "Absent"}

\* the status_<id> fields of a form: for no student, for one of the two, for both
AttendanceForms ==
    {<<>>}
    \cup {(i :> st) : i \in AttendanceStudentIds, st \in Statuses}
    \cup {(1 :> st) @@ (2 :> other) : st \in Statuses, other \in Statuses}

AttendanceSaves ==
    {AttendanceReq("POST", "", d, f) : d \in AttendanceDates, f \in AttendanceForms}

AdminLogin == {LoginPost(TRUE, admin, admin)}
TwoEnrolments == {EnrollPost(TRUE, roll, <<"n">>, <<>>) : roll \in {RollA, RollB}}
OneGrade == {GradePost(TRUE, 1, 50)}

\* the attendance page, asked for today and for a date that is none, and a
\* save without a date
AttendanceOthers ==
    {AttendanceReq("GET", d, "", <<>>) : d \in {"", "bad"}}
    \cup {AttendanceReq("POST", "", "bad", <<>>)}

\* a logged-in admin enrols two students, saves attendance for two dates with
\* every shape of form, enters a grade, and looks at the attendance page
NextAttendance ==
    \/ \E r \in AdminLogin : login(r)
    \/ \E r \in TwoEnrolments : enroll(r)
    \/ \E r \in AttendanceSaves :
          SeqMax({a.id : a \in attendances}) < MaxAttendanceId /\ attendance(r)
    \/ \E r \in AttendanceOthers : attendance(r)
    \/ \E r \in OneGrade : grades_view(r)

SpecAttendance == InitSchool /\ [][NextAttendance]_vars

(***************************************************************************)
(* School portal: specification of enrolments handled at the same time     *)
(***************************************************************************)
\* the portal as main started it, both threads idle
InitRace ==
    /\ SchoolAtRest
    /\ InitHospital
    /\ NoRender
    /\ NoContext
    /\ NoSetup
    /\ Seeded

RaceEnrolments ==
    {EnrollGet} \cup {EnrollPost(TRUE, roll, <<"n">>, <<>>) : roll \in {RollA, RollB}}

StudentsPages == {[route |-> "students", method |-> "GET", q |-> <<>>]}

\* two threads handle enrolments of an admin who logged in and who looks at
\* the student list in between
NextEnrollRace ==
    \/ \E r \in AdminLogin : login(r)
    \/ \E t \in Threads : \E r \in RaceEnrolments : enroll_check(t, r)
    \/ \E t \in Threads : enroll_commit(t)
    \/ \E t \in Threads : handled(t)
    \/ \E r \in StudentsPages : students_view(r)

SpecEnrollRace == InitRace /\ [][NextEnrollRace]_vars

(***************************************************************************)
(* School portal: specification of attendance saved at the same time       *)
(***************************************************************************)
\* saves for one date: a form without fields, which the first thread handles,
\* and one that marks both students present, which the second handles
BlankSave == {AttendanceReq("POST", "", "2024-01-07", <<>>)}
PresentSave == {AttendanceReq("POST", "", "2024-01-07", (1 :> "Present") @@ (2 :> "Present"))}

AttendancePage == {AttendanceReq("GET", "", "", <<>>)}

\* two threads handle attendance saves while students are enrolled and the
\* attendance page is looked at
NextAttendanceRace ==
    \/ \E r \in AdminLogin : login(r)
    \/ \E r \in TwoEnrolments : w_lock = 0 /\ enroll(r)
    \/ \E r \in BlankSave :
          SeqMax({a.id : a \in attendances}) < MaxAttendanceId /\ attendance_read(1, r)
    \/ \E r \in PresentSave :
          SeqMax({a.id : a \in attendances}) < MaxAttendanceId /\ attendance_read(2, r)
    \/ \E t \in Threads : attendance_delete(t)
    \/ \E t \in Threads : attendance_wait(t)
    \/ \E t \in Threads : attendance_locked(t)
    \/ \E t \in Threads : attendance_insert(t)
    \/ \E t \in Threads : attendance_commit(t)
    \/ \E t \in Threads : handled(t)
    \/ \E r \in AttendancePage : attendance(r)

SpecAttendanceRace == InitRace /\ [][NextAttendanceRace]_vars

(***************************************************************************)
(* Hospital portal: the requests a client sends                            *)
(***************************************************************************)
PatientForm(first, last, age, condition) ==
    [first_name |-> first, last_name |-> last, age |-> age, condition |-> condition]

FormAl == PatientForm(<<"A", "l">>, <<"B">>, <<"3">>, <<"z">>)
FormE == PatientForm(<<" ", "É">>, <<"S">>, <<"4">>, <<"x">>)
FormBlank == PatientForm(<<" ">>, <<"B">>, <<"3">>, <<"x">>)
FormBadAge == PatientForm(<<"A", "l">>, <<"B">>, <<"x">>, <<"x">>)

AddReq(method, csrf, form) ==
    [route |-> "patient_add", method |-> method, csrf |-> csrf, form |-> form]

AddReqs ==
    {AddReq("GET", FALSE, FormBlank), AddReq("POST", FALSE, FormAl),
     AddReq("POST", TRUE, FormAl), AddReq("POST", TRUE, FormE),
     AddReq("POST", TRUE, FormBlank), AddReq("POST", TRUE, FormBadAge)}

FewAddReqs == {AddReq("GET", FALSE, FormBlank), AddReq("POST", TRUE, FormAl)}

DeleteReq(method, csrf, pk) ==
    [route |-> "patient_delete", method |-> method, csrf |-> csrf, pk |-> pk]

\* the first patient, the newest, and one that does not exist
DeleteReqs ==
    {DeleteReq("POST", TRUE, pk) : pk \in {1, MaxPid, MaxPid + 1}}
    \cup {DeleteReq("GET", FALSE, 1), DeleteReq("POST", FALSE, 1)}

ListReq(q, page, page_size) ==
    [route |-> "patients_list", method |-> "GET", q |-> q, page |-> page,
     page_size |-> page_size]

\* search texts: none, a letter of a first name in the other case with blanks
\* around, a letter of a last name, of a condition, and one outside ASCII
QTexts == {<<>>, <<" ", "A", " ">>, <<"s">>, <<"z">>, <<"é">>}

\* page parameters: none, numbers in and out of range, padded, not a number
PageTexts == {<<>>, <<"1">>, <<"2">>, <<"3">>, <<"0">>, <<"-", "1">>, <<" ", "2">>,
              <<"9">>, <<"x">>, <<"1", ".", "5">>}

ListReqs ==
    {ListReq(q, page, <<"1">>) : q \in QTexts, page \in {<<>>, <<"2">>}}
    \cup {ListReq(<<>>, page, size) : page \in PageTexts, size \in {<<"1">>, <<"2">>}}
    \cup {ListReq(<<>>, page, size) : page \in {<<>>, <<"2">>},
                                       size \in {<<>>, <<"0">>, <<"x">>, <<"-", "1">>}}

FewListReqs == {ListReq(<<>>, <<>>, <<>>), ListReq(<<"z">>, <<"2">>, <<"1">>)}

ExportReq(format, q, workbook) ==
    [route |-> "patients_export", method |-> "GET", format |-> format, q |-> q,
     workbook |-> workbook]

FormatTexts == {<<>>, csv, xlsx, <<"X", "L", "S", "X">>, <<" ", "x", "l", "s", "x">>,
                <<"x", "l", "s">>}

ExportReqs ==
    {ExportReq(f, <<>>, w) : f \in FormatTexts, w \in BOOLEAN}
    \cup {ExportReq(f, q, TRUE) : f \in {csv, xlsx}, q \in QTexts}

FewExportReqs == {ExportReq(<<>>, <<>>, TRUE), ExportReq(xlsx, <<"z">>, TRUE),
                  ExportReq(xlsx, <<>>, FALSE)}

UpdateReq(method, well_formed, id, data) ==
    [route |-> "patients_ajax_update", method |-> method, well_formed |-> well_formed,
     id |-> id, data |-> data]

UpdateReqs ==
    {UpdateReq("GET", TRUE, <<"1">>, <<>>), UpdateReq("POST", FALSE, <<>>, <<>>),
     UpdateReq("POST", TRUE, <<"9">>, <<>>), UpdateReq("POST", TRUE, <<"x">>, <<>>)}
    \cup {UpdateReq("POST", TRUE, <<"1">>, d) :
            d \in {<<>>, << <<"first_name", <<"Z">>>> >>, << <<"age", <<>>>> >>,
                   << <<"age", <<"x">>>> >>, << <<"id", <<"7">>>> >>,
                   << <<"last_name", <<"Q">>>>, <<"age", <<"x">>>> >>}}

ApptReq(method, well_formed, patient_id, doctor_id, date, time) ==
    [route |-> "patients_ajax_add_appointment", method |-> method,
     well_formed |-> well_formed, patient_id |-> patient_id, doctor_id |-> doctor_id,
     date |-> date, time |-> time]

ApptReqs ==
    {ApptReq("GET", TRUE, <<"1">>, <<"1">>, "2024-01-07", "09:30"),
     ApptReq("POST", FALSE, <<>>, <<>>, "", ""),
     ApptReq("POST", TRUE, <<"1">>, <<"1">>, "2024-01-07", "09:30"),
     ApptReq("POST", TRUE, <<"2">>, <<"1">>, "2024-01-07", "09:30"),
     ApptReq("POST", TRUE, <<"1">>, <<"2">>, "2024-01-07", "09:30"),
     ApptReq("POST", TRUE, <<"1">>, <<"1">>, "", "09:30"),
     ApptReq("POST", TRUE, <<"0">>, <<"1">>, "2024-01-07", "09:30"),
     ApptReq("POST", TRUE, <<"1">>, <<"1">>, "2024-01-07", "bad")}

AdminLoginReqs ==
    {[route |-> "admin_login", method |-> "POST", username |-> admin, password |-> pw] :
        pw \in {AdminPassword, <<"x">>}}

(***************************************************************************)
(* Hospital portal: specifications                                         *)
(***************************************************************************)
\* every route of the portal, by a client that may or may not be logged in
NextHospital ==
    \/ \E r \in AdminLoginReqs : admin_login(r)
    \/ admin_logout([route |-> "admin_logout", method |-> "POST"])
    \/ \E r \in FewListReqs : patients_list(r)
    \/ \E r \in FewAddReqs : patient_add(r)
    \/ \E r \in DeleteReqs : patient_delete(r)
    \/ \E r \in UpdateReqs : patients_ajax_update(r)
    \/ \E r \in ApptReqs : patients_ajax_add_appointment(r)
    \/ \E r \in FewExportReqs : export_patients(r)

SpecHospital == InitSchool /\ [][NextHospital]_vars

\* listing and exporting with every shape of parameter, over a changing table
NextPatients ==
    \/ \E r \in ListReqs : patients_list(r)
    \/ \E r \in ExportReqs : export_patients(r)
    \/ \E r \in AddReqs : patient_add(r)
    \/ \E r \in DeleteReqs : patient_delete(r)

SpecPatients == InitSchool /\ [][NextPatients]_vars

(***************************************************************************)
(* Hospital portal: specification of context copies                        *)
(***************************************************************************)
InitCopy ==
    /\ SchoolAtRest
    /\ InitHospital
    /\ NoRender
    /\ InitContext
    /\ NoSetup
    /\ Seeded

\* a context is built in every way and copied
NextCopy ==
    \/ \E k \in {"a", "b"}, v \in ContextTexts : ctx_setitem(k, v)
    \/ \E k \in {"None", "a"} : ctx_delitem(k)
    \/ \E layer \in PushedLayers : ctx_push(layer)
    \/ ctx_pop
    \/ \E value \in IndexValues : ctx_set_index(value)
    \/ ctx_render
    \/ context_copy

SpecCopy == InitCopy /\ [][NextCopy]_vars

\* a context is built, copied, and both are written to afterwards
NextCopyUse ==
    \/ \E v \in ContextTexts : ctx_setitem("a", v)
    \/ ctx_delitem("None")
    \/ ctx_push(<< <<"a", "2">>, <<"b", "1">> >>)
    \/ ctx_pop
    \/ ctx_set_index(IntIndex(MaxIdx))
    \/ context_copy
    \/ dup_setitem("a", "8")
    \/ dup_push(<< <<"b", "8">> >>)
    \/ self_setitem("a", "9")
    \/ self_push(<< <<"b", "9">> >>)

SpecCopyUse == InitCopy /\ [][NextCopyUse]_vars

(***************************************************************************)
(* Hospital portal: specification of the database setup                    *)
(***************************************************************************)
InitStart ==
    /\ SchoolAtRest
    /\ EmptyTables
    /\ NoRender
    /\ NoContext
    /\ InitSetup
    /\ NotSeeded

NextSetup ==
    \/ setup_migrate
    \/ setup_inspect
    \/ setup_create
    \/ \E t \in needed : other_process_creates(t)
    \/ \E t \in needed : table_written(t)
    \/ program_start

SpecSetup == InitStart /\ [][NextSetup]_vars

(***************************************************************************)
(* Hospital portal: specification of seed_demo over program starts         *)
(***************************************************************************)
\* a new database at the call of seed_demo(): every table present and empty
InitSeed ==
    /\ SchoolAtRest
    /\ EmptyTables
    /\ NoRender
    /\ NoContext
    /\ NoSetup
    /\ h_users = {}
    /\ h_doctors = {}
    /\ seed_pc = "admin"

SeedEdits ==
    {UpdateReq("POST", TRUE, <<"1">>, << <<"age", <<"3">>>> >>),
     UpdateReq("POST", TRUE, <<"2">>, << <<"condition", <<"Z">>>> >>)}

SeedDeletes == {DeleteReq("POST", TRUE, pk) : pk \in {1, 2}}

\* program starts, one seed_demo run each, and between them the admin site
\* and the portal change or delete what was seeded
NextSeed ==
    \/ seed_admin
    \/ seed_doc_user
    \/ seed_doctor
    \/ seed_alice
    \/ seed_bob
    \/ seed_again
    \/ admin_set_password(admin, <<"x">>)
    \/ \E r \in SeedEdits : seed_pc = "done" /\ patients_ajax_update(r)
    \/ \E r \in SeedDeletes : seed_pc = "done" /\ pseq < MaxSeeded /\ patient_delete(r)

SpecSeed == InitSeed /\ [][NextSeed]_vars

(***************************************************************************)
(* School portal: properties                                               *)
(***************************************************************************)
RedirectsToLogin(r) == r.kind = "redirect" /\ r.target = login_view /\ r.data = NoData

\* C1: a request to a login-protected route made while the session is not
\* authenticated does not run the view: the Student, Attendance and Grade
\* tables are unchanged, no data is returned, and the response is a redirect
\* to the login view.
C1_ProtectedRoutesNeedLogin ==
    [][(~is_authenticated(session) /\ req'.route \in ProtectedRoutes)
       => (/\ UNCHANGED <<students, attendances, grades>>
           /\ RedirectsToLogin(resp'))]_vars

\* an enrolment POST from a logged-out client, after a student was stored
C1_Witness ==
    /\ ~is_authenticated(session)
    /\ req.route = "enroll" /\ req.method = "POST"
    /\ students # {}
    /\ RedirectsToLogin(resp)

\* the stored hash of user u is the hash of password
HashMatches(u, password) ==
    users[u].password_hash = PwHash(users[u].password_hash.salt, password)

\* the request names an existing user and carries that user's password
GoodCredentials(r) ==
    \E u \in DOMAIN users : users[u].username = r.form.username
                            /\ HashMatches(u, r.form.password)

LoginPostFromAnon == ~is_authenticated(session) /\ req'.route = "login" /\ req'.method = "POST"

ShowsLoginForm(r) == r.kind = "page" /\ r.target = "login.html"

\* the session becomes authenticated only by a login POST with good credentials
C3_OnlyByLogin ==
    (~is_authenticated(session) /\ is_authenticated(session)')
    => (/\ req'.route = "login" /\ req'.method = "POST"
        /\ GoodCredentials(req')
        /\ users[session'].username = req'.form.username)

\* C3 as stated: every login POST with an unknown username or a wrong
\* password re-displays the form with the 'Invalid username or password.'
\* message (and leaves the session and the User table alone).
C3_Original ==
    [][/\ C3_OnlyByLogin
       /\ (LoginPostFromAnon /\ ~GoodCredentials(req'))
          => (/\ ~is_authenticated(session)'
              /\ users' = users
              /\ ShowsLoginForm(resp')
              /\ MsgInvalid \in Range(resp'.messages))]_vars

\* C3, amended: the session becomes authenticated only through a login POST
\* naming an existing user with the matching password; a login POST with an
\* unknown username or a wrong password leaves the session unauthenticated and
\* the User table unchanged and re-displays the login form, with the 'Invalid
\* username or password.' message exactly when the form passed validation
\* (CSRF token, non-blank username of at most 64 characters, non-blank password).
C3_LoginByCredentials ==
    [][/\ C3_OnlyByLogin
       /\ (LoginPostFromAnon /\ ~GoodCredentials(req'))
          => (/\ ~is_authenticated(session)'
              /\ users' = users
              /\ ShowsLoginForm(resp')
              /\ (MsgInvalid \in Range(resp'.messages) <=> LoginFormValid(req')))]_vars

\* a validated login POST with the wrong password was answered with the message
C3_Witness ==
    /\ req.route = "login" /\ req.method = "POST"
    /\ req.form.username = admin /\ req.form.password = <<"x">>
    /\ ~is_authenticated(session)
    /\ ShowsLoginForm(resp) /\ MsgInvalid \in Range(resp.messages)

\* a login POST answered by the redirect that follows login_user
LoginSucceeded(rq, rs) == rq.route = "login" /\ rq.method = "POST" /\ rs.kind = "redirect"

\* C4: a request to /logout leaves the session unauthenticated; an
\* unauthenticated session stays so over every request but a successful login,
\* and every protected route requested meanwhile redirects to the login view.
C4_LogoutUntilLogin ==
    [][/\ req'.route = "logout" => ~is_authenticated(session)'
       /\ (~is_authenticated(session) /\ ~LoginSucceeded(req', resp'))
          => ~is_authenticated(session)'
       /\ (~is_authenticated(session) /\ req'.route \in ProtectedRoutes)
          => RedirectsToLogin(resp')]_vars

\* a logout by a client that had logged in and stored data
C4_Witness ==
    /\ req.route = "logout"
    /\ session = Anon
    /\ students # {} /\ attendances # {}

\* C6: a validated enrolment whose roll number, stripped, is that of a stored
\* student is answered with the 'Roll Number already exists.' warning and the
\* enroll form, and stores nothing.
C6_DuplicateRollWarned ==
    [][(/\ is_authenticated(session)
        /\ req'.route = "enroll"
        /\ EnrollFormValid(req')
        /\ StudentByRoll(strip(req'.form.roll_no)) # {})
       => (/\ students' = students
           /\ resp'.kind = "page" /\ resp'.target = "enroll.html"
           /\ MsgRollExists \in Range(resp'.messages))]_vars

(***************************************************************************)
(* School portal: properties of the startup                                *)
(***************************************************************************)
Admins(us) == {u \in DOMAIN us : us[u].username = admin}

\* ensure_db_and_admin ran: the program was started by main
EnsureRan == ~running /\ running' /\ debug'

DefaultAdminOnlyIfMissing ==
    EnsureRan =>
        /\ Cardinality(Admins(users')) = 1
        /\ Admins(users) # {} => users' = users
        /\ \A u \in DOMAIN users : u \in DOMAIN users' /\ users'[u] = users[u]
        /\ \A salt \in Salts : with_default_admin(users', salt) = users'

\* C15: after ensure_db_and_admin ran there is exactly one user 'admin'; a
\* user 'admin' that existed keeps its password hash and role (the table is
\* left as it was); and running it again, with whatever salt, gives the same
\* User table.
C15_DefaultAdminOnlyIfMissing == [][DefaultAdminOnlyIfMissing]_vars

\* main started the program after a production run had refused /init-admin,
\* and the password set before that is still the stored one
C15_Witness ==
    /\ running /\ debug
    /\ req.route = "init_admin" /\ resp.status = 403
    /\ \E u \in Admins(users) : check_password(users[u].password_hash, <<"x">>)

\* a request to /init-admin was answered
InitAdminAnswered == running /\ running' /\ req'.route = "init_admin"

NoPassword(r) == r.password = <<>> /\ r.json.password = <<>>

\* the stored password hash of an existing admin is replaced
AdminPasswordChanges ==
    \E u \in Admins(users) : u \in DOMAIN users' /\
        users'[u].password_hash # users[u].password_hash

InitAdminOnlyInDebug ==
    /\ (InitAdminAnswered /\ ~debug) => (resp'.status = 403 /\ users' = users)
    /\ (InitAdminAnswered /\ debug /\ req'.method = "POST" /\ NoPassword(req'))
          => (resp'.status = 400 /\ users' = users)
    /\ AdminPasswordChanges
          => (InitAdminAnswered /\ debug /\ req'.method = "POST" /\ ~NoPassword(req'))

\* C16: outside debug mode every request to /init-admin is answered 403 and
\* leaves the User table unchanged; in debug mode a POST without a password
\* is answered 400 and leaves the User table unchanged; the admin's password
\* changes only through a debug-mode POST that carries a password.
C16_InitAdminOnlyInDebug == [][InitAdminOnlyInDebug]_vars

(***************************************************************************)
(* School portal: properties of attendance keeping                         *)
(***************************************************************************)
OnePerStudentAndDate(rows) ==
    \A a, b \in rows : (a.student_id = b.student_id /\ a.date = b.date) => a = b

\* an attendance POST was carried out for the date d
SavedFor(d) ==
    /\ req'.route = "attendance" /\ req'.method = "POST"
    /\ resp'.kind = "redirect" /\ resp'.target = "attendance"
    /\ fromisoformat(req'.form_date) = d

SaveDays == {fromisoformat(t) : t \in AttendanceDates}

AttendanceIsUnique ==
    /\ OnePerStudentAndDate(attendances)
    /\ OnePerStudentAndDate(attendances')
    /\ \A d \in SaveDays : SavedFor(d) =>
          \A s \in students' :
             Cardinality({a \in attendances' : a.student_id = s.id /\ a.date = d}) = 1

\* C17: while enrolments and attendance saves are carried out one after the
\* other, there is at most one Attendance record for a student and a date, and
\* right after a save for date d there is exactly one record for d for every
\* enrolled student.
C17_AttendanceIsUnique == [][AttendanceIsUnique]_vars

\* attendance was saved for both dates with both students enrolled, the later
\* date first
C17_Witness ==
    /\ req.route = "attendance" /\ req.method = "POST" /\ resp.kind = "redirect"
    /\ Cardinality(students) = 2
    /\ Cardinality(attendances) = 4
    /\ \E a \in attendances : a.date = 6 /\ a.id > 2

Triples(rows) == {<<a.student_id, a.date, a.status>> : a \in rows}

SaveReplacesOneDate ==
    \A d \in SaveDays : SavedFor(d) =>
        /\ without_date(attendances', d) = without_date(attendances, d)
        /\ UNCHANGED <<students, grades>>
        /\ \A a \in attendances' : a.date = d =>
              a.status = IF a.student_id \in DOMAIN req'.statuses
                         THEN req'.statuses[a.student_id] ELSE "Absent"
        /\ Triples(save_attendance(attendances', OrderByRoll(students'), d, req'.statuses))
              = Triples(attendances')

\* C18: an attendance save for date d leaves the records of other dates and
\* all Student and Grade records as they were; each new record for d has the
\* status submitted for its student, or 'Absent' when the form has no field
\* for the student; saving the same form once more gives the same
\* (student, date, status) triples.
C18_SaveReplacesOneDate == [][SaveReplacesOneDate]_vars

\* a save for one date with a field for one of two students only, while
\* records of the other date and a grade are stored
C18_Witness ==
    /\ req.route = "attendance" /\ req.method = "POST" /\ resp.kind = "redirect"
    /\ req.form_date = "2024-01-07"
    /\ DOMAIN req.statuses = {1}
    /\ \E a \in attendances : a.date = 7 /\ a.student_id = 2 /\ a.status = "Absent"
    /\ \E a \in attendances : a.date = 6 /\ a.status = "Present"
    /\ grades # {}

(***************************************************************************)
(* School portal: properties of requests handled at the same time          *)
(***************************************************************************)
\* the rows for date d that the thread's submission asks for
Submission(t) ==
    {<<w_students[t][i], fromisoformat(w_req[t].form_date),
       IF w_students[t][i] \in DOMAIN w_req[t].statuses
       THEN w_req[t].statuses[w_students[t][i]] ELSE "Absent">> :
        i \in 1..Len(w_students[t])}

Committed(t) ==
    /\ w_pc[t] = "done" /\ w_req[t].route = "attendance"
    /\ w_resp[t].kind = "redirect" /\ w_resp[t].target = "attendance"

OfDay(rows, d) == {a \in rows : a.date = d}

\* both threads have handled a save for one date, and one of them at least
\* committed: the date's rows are one committed submission
OneSubmissionStays ==
    (/\ \A t \in Threads : w_pc[t] = "done" /\ w_req[t].route = "attendance"
     /\ w_req[1].form_date = w_req[2].form_date
     /\ \E t \in Threads : Committed(t))
    => \E t \in Threads :
          /\ Committed(t)
          /\ Triples(OfDay(attendances, fromisoformat(w_req[t].form_date))) = Submission(t)

\* a commit leaves, for its date, exactly the rows of its own submission
CommitIsOneSubmission ==
    \A t \in Threads :
        (w_pc[t] = "inserted" /\ w_pc'[t] = "done")
        => Triples(OfDay(attendances', fromisoformat(w_req[t].form_date))) = Submission(t)

SavesDoNotMix ==
    /\ OnePerStudentAndDate(attendances')
    /\ CommitIsOneSubmission
    /\ OneSubmissionStays'

\* C19: when two attendance saves for one date are handled at the same time,
\* the table never holds two records for a student and a date, every commit
\* leaves for its date the records of its own submission, and when both have
\* ended the date's records are those of one of the two submissions.
C19_SavesDoNotMix == [][SavesDoNotMix]_vars

\* both saves for one date have ended with a commit, with different forms for
\* two students, and the second waited for the first one's transaction
C19_Witness ==
    /\ \A t \in Threads : Committed(t)
    /\ w_req[1].form_date = w_req[2].form_date
    /\ w_req[1].statuses # w_req[2].statuses
    /\ \E t \in Threads : w_waited[t]
    /\ Cardinality(students) = 2
    /\ Cardinality(attendances) = 2

UniqueRolls(rows) == \A a, b \in rows : a.roll_no = b.roll_no => a = b

\* a thread's enroll request ends
EnrollEnds(t) == w_pc[t] # "done" /\ w_pc'[t] = "done" /\ w_req'[t].route = "enroll"

RollsUniqueAndHandled ==
    /\ UniqueRolls(students')
    /\ \A t \in Threads : EnrollEnds(t) =>
          \/ w_resp'[t].kind = "redirect"
          \/ w_resp'[t].kind = "page" /\ w_resp'[t].target = "enroll.html"

\* C20: no two stored students have the same roll_no, also when enroll
\* requests for one roll number are handled at the same time and interleave
\* between the existence check and the insert; and every enroll request ends
\* with a redirect or with the form shown again, never with an error.
C20_RollsUniqueAndHandled == [][RollsUniqueAndHandled]_vars

(***************************************************************************)
(* School portal: properties of render()                                   *)
(***************************************************************************)
\* the text between the first {% block content %} that has an {% endblock %}
\* after it and the first such {% endblock %}; the whole child without one
BlockText(child) ==
    IF \E i, j \in 1..Len(child) : i < j /\ child[i] = BlockTag /\ child[j] = EndTag
    THEN LET i == CHOOSE a \in 1..Len(child) :
                      /\ child[a] = BlockTag
                      /\ \E j \in (a + 1)..Len(child) : child[j] = EndTag
                      /\ \A b \in 1..(a - 1) : child[b] # BlockTag
             j == CHOOSE a \in (i + 1)..Len(child) :
                      /\ child[a] = EndTag
                      /\ \A b \in (i + 1)..(a - 1) : child[b] # EndTag
         IN SubSeq(child, i + 1, j - 1)
    ELSE child

SlotAt == CHOOSE i \in 1..Len(base_tpl) : base_tpl[i] = Slot
BaseBefore == SubSeq(base_tpl, 1, SlotAt - 1)
BaseAfter == SubSeq(base_tpl, SlotAt + 1, Len(base_tpl))

\* one step of a call with a registered name does what render() promises
RenderStep ==
    r_name \in TemplateNames =>
        /\ r_pc = "call" =>
              /\ r_pc' = "child"
              /\ r_child' = RenderString(BlockText(template_env[r_name]), r_ctx, r_env)
        /\ r_pc = "child" =>
              /\ r_pc' = "done"
              /\ Cardinality(Positions(base_tpl, Slot)) = 1
              /\ r_out' = RenderString(BaseBefore, r_ctx, r_env) \o r_child
                             \o RenderString(BaseAfter, r_ctx, r_env)

\* C5: for every registered template name, render() first renders with the
\* given context only the text of the child's content block (the whole child
\* when it has none), and then returns the base layout with that rendered
\* text at the child_content slot exactly once: the output is the rendered
\* base text before the slot, the rendered child text piece for piece (so not
\* evaluated again, and with nothing of the child from outside the block),
\* and the rendered base text after the slot.
C5_RenderComposes == [][RenderStep]_vars

\* a call has returned whose context holds text that reads like a template
\* expression of a variable the context also defines
C5_Witness ==
    /\ r_pc = "done"
    /\ r_name = "students.html"
    /\ r_ctx["students"] = <<"{{ q }}">>
    /\ r_ctx["q"] = <<"<b>">>
    /\ r_env.flashed = <<>>
    /\ r_out = <<NL, "<html>", "<a>Login</a>", "<h2>Students</h2>", "&lt;b&gt;",
                 "{{ q }}", "<footer>", NL>>

(***************************************************************************)
(* Hospital portal: properties of the patched Context.__copy__             *)
(***************************************************************************)
\* C11: whatever the dicts stack and the _processors_index of a Context or
\* RequestContext (missing, negative, not an integer, past the end of the
\* stack), the copy does not raise, and the duplicate has a list of layers
\* and an integer _processors_index with 0 <= index < len(duplicate.dicts).
C11_CopyInRange ==
    /\ c_pc # "raised"
    /\ c_pc = "copied"
       => /\ \A i \in 1..Len(c_dup.dicts) : c_dup.dicts[i] \in 1..Len(c_heap)
          /\ c_dup.idx.kind = "int"
          /\ 0 <= c_dup.idx.val
          /\ c_dup.idx.val < Len(c_dup.dicts)

\* a context of one layer whose index pointed past the end was copied
C11_Witness ==
    /\ c_pc = "copied"
    /\ c_self.cls = "RequestContext"
    /\ Len(c_self.dicts) = 1
    /\ c_self.idx = IntIndex(MaxIdx)
    /\ Len(c_dup.dicts) = MaxIdx + 1

\* what a context shows: the value of every key, KeyError for a key not set
ContextKeyNames == {"True", "False", "None", "a", "b"}
View(heap, dicts) == [k \in ContextKeyNames |-> Lookup(heap, dicts, k)]

\* C12: the duplicate shows every key of the original with the same value
\* (the topmost layer deciding), and a key set or pushed on one of the two
\* afterwards changes nothing the other shows.
C12_CopyIsFaithful ==
    [][/\ (c_pc = "built" /\ c_pc' = "copied")
          => \A k \in VisibleKeys(c_heap, c_self.dicts) :
                Lookup(c_heap', c_dup'.dicts, k) = Lookup(c_heap, c_self.dicts, k)
       /\ (c_pc = "copied" /\ c_pc' = "copied")
          => \/ View(c_heap', c_self'.dicts) = View(c_heap, c_self.dicts)
             \/ View(c_heap', c_dup'.dicts) = View(c_heap, c_dup.dicts)]_vars

(***************************************************************************)
(* Hospital portal: properties of ensure_db_setup                          *)
(***************************************************************************)
\* C13: when ensure_db_setup has returned, the tables of Doctor, Patient and
\* Appointment exist, whether or not migrate raised; no step of it creates a
\* table that exists (what such a table holds stays); and when a needed table
\* was missing and create_missing_tables created none, it ends in
\* RuntimeError and does not return.
C13_TablesAfterSetup ==
    [][/\ s_pc' = "returned" => \A t \in needed : s_tables'[t] # "absent"
       /\ \A t \in needed : s_tables[t] # "absent" => s_tables'[t] \in {s_tables[t], "rows"}
       /\ \A t \in needed : s_tables[t] = "rows" => s_tables'[t] = "rows"
       /\ (s_pc = "inspected" /\ s_pc' \notin {"inspected", "database_error"})
          => (s_pc' = "runtime_error" <=> s_created' = {})
       /\ (s_pc = "inspected" /\ s_pc' = "returned")
          => s_created' \cap table_names = {}]_vars

\* migrate raised having created one table, the other two were created after
\* it, and ensure_db_setup returned
C13_Witness ==
    /\ s_pc = "returned"
    /\ s_migrate = "raised"
    /\ s_created = {PatientTable, AppointmentTable}
    /\ \A t \in needed : s_tables[t] = "empty"

(***************************************************************************)
(* Hospital portal: properties of seed_demo                                *)
(***************************************************************************)
Named(first, last) == {pt \in patients : pt.first_name = first /\ pt.last_name = last}
NamedAfter(first, last) == {pt \in patients' : pt.first_name = first /\ pt.last_name = last}

\* a statement of seed_demo ran
SeedStatement == seed_pc \in Range(SeedStatements) /\ seed_pc' # seed_pc

SeedKeepsAndAddsMissing ==
    /\ h_users \subseteq h_users'
    /\ h_doctors \subseteq h_doctors'
    /\ patients \subseteq patients'
    /\ \A u \in h_users' \ h_users : \A o \in h_users : o.username # u.username
    /\ \A d \in h_doctors' \ h_doctors : \A o \in h_doctors : o.user # d.user
    /\ \A pt \in patients' \ patients : Named(pt.first_name, pt.last_name) = {}

SeedComplete ==
    /\ Cardinality({u \in h_users' : u.username = admin}) = 1
    /\ Cardinality({u \in h_users' : u.username = dr_smith}) = 1
    /\ \A u \in h_users' : u.username = dr_smith
           => Cardinality({d \in h_doctors' : d.user = u.id}) = 1
    /\ Cardinality(h_doctors') = 1
    /\ Cardinality(NamedAfter(Alice, Brown)) = 1
    /\ Cardinality(NamedAfter(Bob, Green)) = 1

SeedIsIdempotent ==
    SeedStatement =>
        /\ SeedKeepsAndAddsMissing
        /\ seed_pc' # "raised"
        /\ seed_pc' = "done" => SeedComplete

\* C14: over any number of program starts from an empty database, a seed_demo
\* statement keeps every existing row as it is (the admin's password
\* included), creates a row only where its lookup found none, never raises,
\* and a finished run leaves exactly one admin, one dr_smith with exactly one
\* Doctor row, one Alice Brown and one Bob Green.
C14_SeedIsIdempotent == [][SeedIsIdempotent]_vars

\* a later run has passed the statements for the users, the doctor and Alice
\* Brown, with the admin's password and Alice Brown's age changed since the
\* first run
C14_Witness ==
    /\ seed_pc = "bob"
    /\ \E u \in h_users : u.username = admin /\ u.password = <<"x">>
    /\ \E pt \in patients : pt.first_name = Alice /\ pt.age = 3
    /\ Cardinality(h_users) = 2

(***************************************************************************)
(* Hospital portal: properties                                             *)
(***************************************************************************)
MutatingRoutes ==
    {"patient_add", "patient_delete", "patients_ajax_update", "patients_ajax_add_appointment"}

\* C2: a request that changes Patient or Appointment data is carried out only
\* for an authenticated session; a request from an unauthenticated client
\* changes no Patient or Appointment record.
C2_ChangesNeedLogin ==
    [][(~hauth /\ hreq'.route \in MutatingRoutes)
       => UNCHANGED <<patients, appointments>>]_vars

\* the page_size parameter is absent or a positive integer
PositiveSize(size) == size = <<>> \/ (ParseInt(size).ok /\ ParseInt(size).val > 0)

SizeOf(size) == IF size = <<>> THEN DefaultPageSize ELSE ParseInt(size).val

\* the patients the portal's query matches for the search text q
Matching(q) == IF strip(q) = <<>> THEN patients ELSE {pt \in patients : Matches(pt, strip(q))}

CeilDiv(a, b) == (a + b - 1) \div b

\* the number of pages that hold count rows, size to a page; one when empty
PagesFor(count, size) == IF count = 0 THEN 1 ELSE CeilDiv(count, size)

\* the ids at positions (number-1)*size+1 .. number*size of the ascending list
Chunk(rows, size, number) ==
    [i \in 1..Min(size, Len(rows) - (number - 1) * size) |-> rows[(number - 1) * size + i].id]

\* C7: whatever the page parameter, patients_list shows one existing page of
\* the filtered list: page 1 when the parameter is missing or no integer, the
\* last page when it is an integer outside 1..num_pages, and it never fails.
C7_PageParameter ==
    [][(hreq'.route = "patients_list" /\ PositiveSize(hreq'.page_size))
       => LET page == hreq'.page
              asked == ParseInt(page)
              rows == RowsById(Matching(hreq'.q))
              size == SizeOf(hreq'.page_size)
              last == PagesFor(Len(rows), size)
          IN /\ hresp'.kind = "page" /\ hresp'.status = 200
             /\ hresp'.num_pages = last
             /\ hresp'.number \in 1..last
             /\ page = <<>> => hresp'.number = 1
             /\ ~asked.ok => hresp'.number = 1
             /\ (asked.ok /\ asked.val \notin 1..last) => hresp'.number = last
             /\ (asked.ok /\ asked.val \in 1..last) => hresp'.number = asked.val
             /\ hresp'.object_list = Chunk(rows, size, hresp'.number)]_vars

\* page 9 was asked of a list of three pages, and the third was shown
C7_Witness ==
    /\ hreq.route = "patients_list"
    /\ hreq.page = <<"9">> /\ hreq.page_size = <<"1">>
    /\ hresp.kind = "page" /\ hresp.num_pages = 3 /\ hresp.number = 3
    /\ Len(hresp.object_list) = 1

RECURSIVE Flatten(_)
Flatten(ss) == IF ss = <<>> THEN <<>> ELSE Head(ss) \o Flatten(Tail(ss))

\* the pages 1..num_pages of the list for q, size to a page, in order
AllPages(q, size) ==
    LET n == ListResponse(q, <<>>, IntText(size)).num_pages
    IN [i \in 1..n |-> ListResponse(q, IntText(i), IntText(size)).object_list]

Ascending(ids) == \A i \in 1..(Len(ids) - 1) : ids[i] < ids[i + 1]

\* C8: for the database as it stands, a search text and a positive page size,
\* the pages 1..num_pages in order list every matching patient exactly once in
\* ascending id order; every page but the last is full and none is over-full.
C8_PagesPartition ==
    \A q \in QTexts : \A size \in 1..MaxPageSize :
        LET pages == AllPages(q, size)
            all == Flatten(pages)
        IN /\ Ascending(all)
           /\ Range(all) = {pt.id : pt \in Matching(q)}
           /\ \A i \in 1..Len(pages) :
                 /\ Len(pages[i]) <= size
                 /\ i < Len(pages) => Len(pages[i]) = size

\* the second of three pages was shown, one patient to a page
C8_Witness ==
    /\ hreq.route = "patients_list"
    /\ hreq.page_size = <<"1">>
    /\ hresp.kind = "page" /\ hresp.num_pages = 3 /\ hresp.number = 2
    /\ hresp.object_list = <<2>>

\* the patients whose names or condition contain the trimmed q, with case
\* compared as `contains` decides
Claimed(q, contains(_, _)) ==
    IF strip(q) = <<>> THEN patients
    ELSE {pt \in patients : \/ contains(pt.first_name, strip(q))
                            \/ contains(pt.last_name, strip(q))
                            \/ contains(pt.condition, strip(q))}

\* the id column of an export's data rows
RowIds(rows) == [i \in 1..(Len(rows) - 1) |-> rows[i + 1][1]]

IdTexts(rows) == [i \in 1..Len(rows) |-> IntText(rows[i].id)]

ListedIdTexts(q, size) ==
    LET all == Flatten(AllPages(q, size))
    IN [i \in 1..Len(all) |-> IntText(all[i])]

\* an export or a list request leaves the tables alone, and an export holds
\* one row for each patient the list shows for the same q, in the same order:
\* the patients `contains` selects, by ascending id
SearchAndExportAgree(contains(_, _)) ==
    /\ hreq'.route \in {"patients_list", "patients_export"}
       => UNCHANGED <<patients, pseq, appointments, aseq>>
    /\ hreq'.route = "patients_export"
       => /\ \A size \in 1..MaxPageSize :
                RowIds(hresp'.rows) = ListedIdTexts(hreq'.q, size)
          /\ RowIds(hresp'.rows) = IdTexts(RowsById(Claimed(hreq'.q, contains)))

\* C9 as stated: the match is case-insensitive for every letter.
C9_Original == [][SearchAndExportAgree(icontains_unicode)]_vars

\* C9, amended: export_patients exports one row for exactly the patients that
\* patients_list shows across its pages for the same q (those whose
\* first_name, last_name or condition contains the trimmed q, upper and lower
\* case taken as equal for ASCII letters only, or all patients when the trimmed
\* q is empty), in the same ascending id order; neither changes a record.
C9_SearchAndExportAgree == [][SearchAndExportAgree(icontains)]_vars

\* an export for a search text that one of two patients matches by condition
C9_Witness ==
    /\ hreq.route = "patients_export"
    /\ hreq.q = <<"z">>
    /\ Cardinality(patients) = 2
    /\ Len(hresp.rows) = 2

\* C10: the export is an XLSX attachment only when the format is 'xlsx' in any
\* case and the workbook was built, a CSV attachment otherwise; the body is the
\* header row followed by one row per matched patient; it never fails.
C10_ExportFormat ==
    [][hreq'.route = "patients_export"
       => /\ hresp'.status = 200 /\ hresp'.attachment
          /\ hresp'.kind \in {"xlsx", "csv"}
          /\ hresp'.kind = "xlsx" <=> (lower(hreq'.format) = xlsx /\ hreq'.workbook)
          /\ hresp'.rows[1] = ExportHeader
          /\ Len(hresp'.rows) = 1 + Cardinality(Matching(hreq'.q))]_vars

\* format=XLSX was asked, the workbook could not be built, and CSV was sent
C10_Witness ==
    /\ hreq.route = "patients_export"
    /\ hreq.format = <<"X", "L", "S", "X">> /\ ~hreq.workbook
    /\ hresp.kind = "csv"
    /\ Len(hresp.rows) = 3

(***************************************************************************)
(* Hospital portal: the inline editor's update request                     *)
(***************************************************************************)
\* an age of twenty digits, more than an SQLite INTEGER holds
HugeAge == Rep("9", SqliteIntDigits + 1)

\* the data object of a payload, as the (key, value) pairs data.items() yields
UpdatePayloads ==
    {<<>>,
     << <<"first_name", <<"Z">>>> >>,
     << <<"age", <<>>>> >>,
     << <<"age", <<" ", "7">>>> >>,
     << <<"age", <<"-", "2">>>> >>,
     << <<"age", <<"x">>>> >>,
     << <<"age", JsonNull>> >>,
     << <<"age", HugeAge>> >>,
     << <<"id", <<"7">>>> >>,
     << <<"last_name", JsonNull>> >>,
     << <<"first_name", <<"Z">>>>, <<"age", <<"7">>>>, <<"condition", <<"C">>>> >>,
     << <<"first_name", <<"Z">>>>, <<"last_name", <<"Q">>>>, <<"condition", <<"C">>>>,
        <<"age", <<"x">>>> >>,
     << <<"first_name", <<"Z">>>>, <<"condition", JsonNull>> >>,
     << <<"last_name", <<"Q">>>>, <<"age", HugeAge>> >>}

AllOrNothingReqs ==
    {UpdateReq("GET", TRUE, <<"1">>, << <<"first_name", <<"Z">>>> >>),
     UpdateReq("POST", FALSE, <<>>, <<>>),
     UpdateReq("POST", TRUE, <<"9">>, << <<"first_name", <<"Z">>>> >>),
     UpdateReq("POST", TRUE, <<"x">>, << <<"first_name", <<"Z">>>> >>),
     UpdateReq("POST", TRUE, <<>>, << <<"first_name", <<"Z">>>> >>)}
    \cup {UpdateReq("POST", TRUE, id, d) : id \in {<<"1">>, <<"2">>}, d \in UpdatePayloads}

UpdateDeletes == {DeleteReq("POST", TRUE, 2)}

\* the editor posting payloads of every shape while a patient may be deleted
NextUpdate ==
    \/ \E r \in AllOrNothingReqs : patients_ajax_update(r)
    \/ \E r \in UpdateDeletes : patient_delete(r)

SpecUpdate == InitSchool /\ [][NextUpdate]_vars

\* the value the payload asks to be stored for key k
AsGiven(k, v) == IF k # "age" THEN v ELSE IF v = <<>> THEN 0 ELSE ParseInt(v).val

\* every allowed field of the payload is in the row with the given value
HasGiven(row, data) ==
    \A i \in 1..Len(data) :
        data[i][1] \in AllowedFields => row[data[i][1]] = AsGiven(data[i][1], data[i][2])

\* the fields the payload does not name
Untouched(row, old, data) ==
    \A k \in AllowedFields \cup {"id"} :
        (\A i \in 1..Len(data) : data[i][1] # k) \/ k = "id" => row[k] = old[k]

AllOrNothing ==
    hreq'.route = "patients_ajax_update"
    => /\ hresp'.kind \in {"error", "json"}
       /\ hresp'.kind = "error"
          => /\ hresp'.status \in {400, 405, 500}
             /\ patients' = patients
       /\ hresp'.kind = "json"
          => \E old \in patients : \E row \in patients' :
                /\ old.id = ParseInt(hreq'.id).val /\ row.id = old.id
                /\ HasGiven(row, hreq'.data)
                /\ Untouched(row, old, hreq'.data)
                /\ patients' \ {row} = patients \ {old}

\* C21: patients_ajax_update is all-or-nothing: whenever the response is an
\* error (status 400, 405 or 500) no field of any stored patient has changed,
\* also when the payload lists valid first_name, last_name or condition values
\* before the bad age; whenever the response is 'ok', every allowed field given
\* in the payload is stored with the given value (age as an integer, an empty
\* age as 0), and nothing else has changed.
C21_UpdateAllOrNothing == [][AllOrNothing]_vars

\* a payload with three valid fields before an age that is no integer was
\* answered 400 and the first patient is as seeded
C21_Witness ==
    /\ hreq.route = "patients_ajax_update" /\ hreq.id = <<"1">>
    /\ Len(hreq.data) = 4 /\ hreq.data[1] = <<"first_name", <<"Z">>>>
    /\ hreq.data[4] = <<"age", <<"x">>>>
    /\ hresp = HError(400)
    /\ \E pt \in patients :
          /\ pt.id = 1 /\ pt.first_name = Alice /\ pt.last_name = Brown
          /\ pt.age = AliceAge /\ pt.condition = Checkup

====
